---- MODULE Spec2Model ----
(***************************************************************************)
(* Aegis Decision Engine (ADE): a model of the closed decision loop.       *)
(*                                                                         *)
(*   SpecIngest   - ingest.Service.Ingest over postgres.EventStore         *)
(*   SpecDecision - decision.Service.MakeDecision over DecisionStore       *)
(*   SpecCB       - circuitbreaker.CircuitBreaker under concurrent callers *)
(*   SpecWebhook  - webhook.Client.Send (retries behind the breaker)       *)
(*   SpecFeatures - state.Service.CalculateFeatures over the events table  *)
(*   SpecFeedback - feedback.Service.RecordFeedback and Rollback           *)
(*   SpecSimulation - simulation.Service.Run on the shared random source   *)
(*   SpecLimiter  - ratelimit.RateLimiter.Allow and Reset                  *)
(*   SpecHandlerConcurrent - decision.Handler with requests in flight      *)
(*   SpecSchedulerFair - the Scheduler with a fairly scheduled run loop    *)
(***************************************************************************)
EXTENDS Integers, Sequences, FiniteSets, TLC

(***************************************************************************)
(* Bounds of the model.                                                    *)
(***************************************************************************)
\* number of Ingest calls explored
MaxIngestCalls == 3
\* number of distinct non-empty event ids offered to Ingest
NumEventIds == 2
\* number of distinct non-empty idempotency keys offered to Ingest / evaluate
NumKeys == 2

EventIds == {"evt-1", "evt-2", "evt-3", "evt-4"}

EventIdPool == {e \in EventIds : \E i \in 1..NumEventIds : e = <<"evt-1", "evt-2", "evt-3", "evt-4">>[i]}

Keys == {"key-1", "key-2", "key-3", "key-4"}

KeyPool == {k \in Keys : \E i \in 1..NumKeys : k = <<"key-1", "key-2", "key-3", "key-4">>[i]}

\* models.EventType constants; "bogus" stands for any other non-empty string
ValidEventTypes == {"metrics", "alert", "custom"}

VARIABLES
    \* ---- ingest -------------------------------------------------------
    events,        \* rows of table events
    kafka,         \* how many times each event was written to the downstream event log
    kafkaWriter,   \* Service.kafkaWriter # nil
    ingestCalls,   \* number of Ingest calls made
    ingestResp,    \* the last Ingest call: request, response and the row its key had before
    \* ---- decision -----------------------------------------------------
    decisions,     \* rows of table decision_records
    snapshots,     \* rows of table feature_snapshots
    traces,        \* rows of table decision_traces
    nano,          \* time.Now().UnixNano() as seen by MakeDecision
    dpc,           \* position of each evaluate caller inside MakeDecision
    dcall,         \* each evaluate caller's request, generated ids and result
    \* ---- circuit breaker ---------------------------------------------
    cfg,           \* CircuitBreaker.config
    state,         \* CircuitBreaker.state
    failures,      \* CircuitBreaker.failures
    successes,     \* CircuitBreaker.successes
    lastFailure,   \* CircuitBreaker.lastFailure
    now,           \* the wall clock read by time.Now / time.Since
    pc,            \* position of each caller inside Execute / Send
    call,          \* per-caller bookkeeping of the call in progress / last finished
    streak,        \* failures recorded while closed since the last success or (re)closing
    trials,        \* calls admitted during the current half-open period
    hoSuccesses,   \* successes recorded during the current half-open period
    failedDests,   \* destinations for which a failure has been recorded
    maxRetries,    \* webhook.Client.maxRetries
    \* ---- policy ------------------------------------------------------
    condIn,        \* the condition and features given to evaluateCondition
    condOut,       \* what evaluateCondition returned for condIn
    evalIn,        \* the policy and features given to Engine.Evaluate
    evalOut,       \* what Engine.Evaluate returned for evalIn
    policies,      \* Handler.policies: policy id -> loaded policy
    loadOut,       \* the last /policies/load request: the file and the answer
    lastEvaluated, \* the policy the last /evaluate request was run against
    \* ---- scheduler ---------------------------------------------------
    jobs,          \* Scheduler.jobs: the JobQueue, a binary heap laid out in a slice
    running,       \* Scheduler.running
    stopChan,      \* Scheduler.stopChan: "open" or "closed"
    ctxDone,       \* the context given to Start has been cancelled
    loops,         \* the run goroutines counted by Scheduler.wg: position and the tick's now
    workers,       \* ids of the jobs whose executeJob goroutine has not returned
    dispatched,    \* ids of the jobs handed to executeJob
    nDispatched,   \* how many times a job was handed to executeJob
    canceled,      \* ids for which Cancel returned true (it returns true exactly when it removes)
    stopCall,      \* position of the caller of Stop
    actionOut,     \* the last action.Service.Schedule call: the request and the answer
    \* ---- action service ----------------------------------------------
    svc,           \* action.Service: dryRun and webhookURL
    exec,          \* the Execute call in progress, or the last one that ended
    batch,         \* the ExecuteBatch call in progress, or the last one that ended
    \* ---- feature builder ---------------------------------------------
    featIn,        \* the events of the service in the events table
    featOut,       \* the CalculateFeatures calls made: events fetched, time, answer
    \* ---- feedback ----------------------------------------------------
    origActions,   \* the executed actions by action_id: their action type
    fbOut,         \* the last RecordFeedback call: the request and the answer
    rbOut,         \* the last Rollback call: the request and the answer
    \* ---- simulation --------------------------------------------------
    rng,           \* the state of the global math/rand source
    runs,          \* per runner, the Run call in progress or the last one that ended
    \* ---- rate limiter ------------------------------------------------
    limiter,       \* RateLimiter: rate, burst, tokens and lastRefill
    rlAllowed,     \* per key, the Allow calls answered true at one instant
    \* ---- policy handler under concurrent requests ---------------------
    hreq,          \* per HTTP request goroutine, its position in the handler
    hfatal         \* the fatal error the runtime raised on Handler.policies, if any

ingestVars == <<events, kafka, kafkaWriter, ingestCalls, ingestResp>>

decisionVars == <<decisions, snapshots, traces, nano, dpc, dcall>>

breakerVars == <<cfg, state, failures, successes, lastFailure>>

callerVars == <<pc, call, streak, trials, hoSuccesses, failedDests, maxRetries>>

policyVars == <<condIn, condOut, evalIn, evalOut, policies, loadOut, lastEvaluated>>
schedVars == <<jobs, running, stopChan, ctxDone, loops, workers, dispatched, nDispatched,
               canceled, stopCall, actionOut>>

actionVars == <<svc, exec, batch>>

featureVars == <<featIn, featOut>>

feedbackVars == <<origActions, fbOut, rbOut>>

simVars == <<rng, runs>>

rlVars == <<limiter, rlAllowed>>

handlerVars == <<hreq, hfatal>>

lateVars == <<feedbackVars, simVars, rlVars, handlerVars>>

vars == <<ingestVars, decisionVars, breakerVars, now, callerVars, policyVars, schedVars,
          actionVars, featureVars, lateVars>>

NoRow == [none |-> TRUE]

(***************************************************************************)
(* A. Ingest                                                               *)
(***************************************************************************)

\* Validate without its test of the payload
Validate_NoPayloadCheck(req) ==
    IF req.event_id = "" THEN "event_id is required"
    ELSE IF req.idempotency_key = "" THEN "idempotency_key is required"
    ELSE IF req.service_id = "" THEN "service_id is required"
    ELSE IF req.event_type = "" THEN "event_type is required"
    ELSE "ok"

\* IngestRequest.Validate: the five required fields are non-empty
Validate(req) ==
    IF req.event_id = "" THEN "event_id is required"
    ELSE IF req.idempotency_key = "" THEN "idempotency_key is required"
    ELSE IF req.service_id = "" THEN "service_id is required"
    ELSE IF req.event_type = "" THEN "event_type is required"
    ELSE IF req.payload = "" THEN "payload is required"
    ELSE "ok"

\* the row of `rows` holding idempotency key k, or NoRow
RowByKey(rows, k) ==
    IF \E r \in rows : r.idempotency_key = k
    THEN CHOOSE r \in rows : r.idempotency_key = k
    ELSE NoRow

\* the INSERT without its ON CONFLICT clause: a duplicate key is a unique violation
EventStoreStore_NoOnConflict(rows, ev) ==
    IF ev.event_type \notin ValidEventTypes
    THEN [rows |-> rows, err |-> TRUE]
    ELSE IF \E r \in rows : r.idempotency_key = ev.idempotency_key \/ r.event_id = ev.event_id
    THEN [rows |-> rows, err |-> TRUE]
    ELSE [rows |-> rows \cup {ev}, err |-> FALSE]

\* EventStore.Store: INSERT ... ON CONFLICT (idempotency_key) DO NOTHING against
\* the table's constraints (chk_event_type, UNIQUE event_id, UNIQUE idempotency_key).
\* The CHECK constraint is evaluated before the arbiter index; a conflict on the
\* arbiter makes the statement a no-op (pgx.ErrNoRows -> nil); any other unique
\* violation is an error.
EventStoreStore(rows, ev) ==
    IF ev.event_type \notin ValidEventTypes
    THEN [rows |-> rows, err |-> TRUE]
    ELSE IF \E r \in rows : r.idempotency_key = ev.idempotency_key
    THEN [rows |-> rows, err |-> FALSE]
    ELSE IF \E r \in rows : r.event_id = ev.event_id
    THEN [rows |-> rows, err |-> TRUE]
    ELSE [rows |-> rows \cup {ev}, err |-> FALSE]

\* Service.publishToKafka: one more message carrying the request's event
Publish(log, ev) ==
    LET m == <<ev.event_id, ev.idempotency_key>> IN
    IF m \in DOMAIN log THEN [log EXCEPT ![m] = log[m] + 1]
    ELSE [x \in DOMAIN log \cup {m} |-> IF x = m THEN 1 ELSE log[x]]

\* well-formed requests
ValidRequests ==
    [event_id : EventIdPool, idempotency_key : KeyPool, service_id : {"svc-a"},
     event_type : {"metrics", "alert"}, payload : {"p1"}]

\* metrics payloads with one numeric field outside its range, as JSON texts
OutOfRangePayloads ==
    {"cpu=150", "cpu=-50", "latency_ms=-1", "error_rate=2", "requests_per_second=-1",
     "queue_depth=-1"}

\* json.Unmarshal of a metrics payload into models.MetricsPayload
DecodeMetrics(payload) ==
    LET ok == [cpu |-> 50, latency_ms |-> 10, error_rate |-> 0, requests_per_second |-> 100,
               queue_depth |-> 1]
    IN  IF payload = "cpu=150" THEN [ok EXCEPT !.cpu = 150]
        ELSE IF payload = "latency_ms=-1" THEN [ok EXCEPT !.latency_ms = -1]
        ELSE IF payload = "error_rate=2" THEN [ok EXCEPT !.error_rate = 2]
        ELSE IF payload = "requests_per_second=-1" THEN [ok EXCEPT !.requests_per_second = -1]
        ELSE IF payload = "queue_depth=-1" THEN [ok EXCEPT !.queue_depth = -1]
        ELSE IF payload = "cpu=-50" THEN [ok EXCEPT !.cpu = -50]
        ELSE IF payload = "cpu=90,latency_ms=900"
             THEN [ok EXCEPT !.cpu = 90, !.latency_ms = 900]
        ELSE ok

\* the ranges of the metrics schema of the EventValidator
MetricsInRange(m) ==
    /\ m.cpu >= 0 /\ m.cpu <= 100
    /\ m.latency_ms >= 0
    /\ m.error_rate >= 0 /\ m.error_rate <= 1
    /\ m.requests_per_second >= 0
    /\ m.queue_depth >= 0

\* the metrics requests offered to Ingest: the well-formed ones, and each of
\* them with a payload that has a field out of range
MetricsRequests ==
    LET ms == {req \in ValidRequests : req.event_type = "metrics"}
    IN  ms \cup {[r EXCEPT !.payload = p] : r \in ms, p \in OutOfRangePayloads}

\* the requests offered to Ingest: the well-formed ones, and each of them with
\* one field left empty or with an event type outside the closed set
IngestRequests ==
    ValidRequests
    \cup {[r EXCEPT !.event_id = ""] : r \in ValidRequests}
    \cup {[r EXCEPT !.idempotency_key = ""] : r \in ValidRequests}
    \cup {[r EXCEPT !.service_id = ""] : r \in ValidRequests}
    \cup {[r EXCEPT !.event_type = ""] : r \in ValidRequests}
    \cup {[r EXCEPT !.event_type = "bogus"] : r \in ValidRequests}
    \cup {[r EXCEPT !.payload = ""] : r \in ValidRequests}

\* Service.Ingest: validate, store, publish (when a writer is configured), respond.
\* kafkaOk is whether WriteMessages succeeds.
Ingest(req, kafkaOk) ==
    /\ ingestCalls < MaxIngestCalls
    /\ ingestCalls' = ingestCalls + 1
    /\ LET before == RowByKey(events, req.idempotency_key) IN
       IF Validate(req) # "ok"
       THEN /\ ingestResp' = [req |-> req, err |-> "validation", stored |-> FALSE,
                              published |-> FALSE, before |-> before]
            /\ UNCHANGED <<events, kafka>>
       ELSE LET st == EventStoreStore(events, req) IN
            IF st.err
            THEN /\ ingestResp' = [req |-> req, err |-> "store", stored |-> FALSE,
                                   published |-> FALSE, before |-> before]
                 /\ UNCHANGED <<events, kafka>>
            ELSE LET published == kafkaWriter /\ kafkaOk IN
                 /\ events' = st.rows
                 /\ kafka' = IF published THEN Publish(kafka, req) ELSE kafka
                 /\ ingestResp' = [req |-> req, err |-> "none", stored |-> TRUE,
                                   published |-> published, before |-> before]
    /\ UNCHANGED <<kafkaWriter, decisionVars, breakerVars, now, callerVars, policyVars, schedVars,
                   actionVars, featureVars, lateVars>>

IngestStep ==
    \E req \in IngestRequests, kafkaOk \in BOOLEAN : Ingest(req, kafkaOk)

IngestMetricsStep ==
    \E req \in MetricsRequests, kafkaOk \in BOOLEAN : Ingest(req, kafkaOk)

(***************************************************************************)
(* Decision service                                                        *)
(***************************************************************************)
\* last value of the nanosecond clock explored
MaxNano == 1
\* the concurrent evaluate callers (request workers)
DecisionCallers == {"w1", "w2"}

\* the action of the matched rule as Engine.Evaluate reports it; "" is no match
ActionInputs == {"", "throttle"}

\* MakeDecision's mapping of the matched action to a DecisionResult
DecisionResultOf(action) ==
    IF action = "throttle" THEN "throttle"
    ELSE IF action = "open_circuit" THEN "deny"
    ELSE "allow"

\* the INSERT arbitrating on decision_id instead of idempotency_key, on a table
\* whose idempotency_key is not unique
DecisionStoreStore_WrongArbiter(rows, rec) ==
    IF \E r \in rows : r.decision_id = rec.decision_id
    THEN [rows |-> rows, err |-> FALSE, conflict |-> TRUE]
    ELSE [rows |-> rows \cup {rec}, err |-> FALSE, conflict |-> FALSE]

\* DecisionStore.Store: INSERT ... ON CONFLICT (idempotency_key) DO NOTHING on
\* decision_records (UNIQUE decision_id, UNIQUE idempotency_key); pgx.ErrNoRows
\* of the no-op is swallowed, a decision_id collision is an error.
DecisionStoreStore(rows, rec) ==
    IF \E r \in rows : r.idempotency_key = rec.idempotency_key
    THEN [rows |-> rows, err |-> FALSE, conflict |-> TRUE]
    ELSE IF \E r \in rows : r.decision_id = rec.decision_id
    THEN [rows |-> rows, err |-> TRUE, conflict |-> FALSE]
    ELSE [rows |-> rows \cup {rec}, err |-> FALSE, conflict |-> FALSE]

\* DecisionStore.StoreTrace: trace_id is unique and decision_id references
\* decision_records(decision_id); a violation is an error (logged by the caller)
StoreTrace(rows, decs, tr) ==
    IF (\E t \in rows : t.trace_id = tr.trace_id) \/ ~(\E d \in decs : d.decision_id = tr.decision_id)
    THEN rows
    ELSE rows \cup {tr}

NoCall == [idempotency_key |-> "", action |-> "", decision_id |-> 0, conflict |-> FALSE]

\* the service the features of an evaluate request are for
FeaturesServiceID == "svc-a"

\* DecisionRecord.SnapshotID as MakeDecision sets it
DecisionSnapshotID(serviceID) == serviceID \o "-snap"

\* the decimal digits of a natural number, as %d prints it
RECURSIVE FormatUnix(_)
FormatUnix(n) ==
    LET digit == <<"0", "1", "2", "3", "4", "5", "6", "7", "8", "9">>[(n % 10) + 1] IN
    IF n < 10 THEN digit ELSE FormatUnix(n \div 10) \o digit

\* FeatureSnapshot.SnapshotID as CalculateFeatures sets it
FeatureSnapshotID(serviceID, unix) == "snap-" \o serviceID \o "-" \o FormatUnix(unix)

\* FeatureStore.Store: INSERT into feature_snapshots (snapshot_id UNIQUE); an
\* error is logged by the caller
FeatureStoreStore(rows, snap) ==
    IF \E r \in rows : r.snapshot_id = snap.snapshot_id THEN rows ELSE rows \cup {snap}

\* CalculateFeatures for FeaturesServiceID: with no event in the window it
\* fails; else the features are computed and their snapshot is stored when the
\* service has a feature store
CalculateFeatures(hasEvents, hasFeatureStore) ==
    /\ snapshots' = IF hasEvents /\ hasFeatureStore
                    THEN FeatureStoreStore(snapshots,
                             [snapshot_id |-> FeatureSnapshotID(FeaturesServiceID, nano),
                              service_id |-> FeaturesServiceID])
                    ELSE snapshots
    /\ UNCHANGED <<decisions, traces, nano, dpc, dcall, ingestVars, breakerVars, now, callerVars, policyVars, schedVars,
                   actionVars, featureVars, lateVars>>

\* MakeDecision up to the store: ids from the clock, policy evaluated (its matched
\* action is the input), actions and result built
MakeDecisionBegin(c, key, action) ==
    /\ dpc[c] = "idle"
    /\ dpc' = [dpc EXCEPT ![c] = "store"]
    /\ dcall' = [dcall EXCEPT ![c] = [idempotency_key |-> key, action |-> action,
                                      decision_id |-> nano, conflict |-> FALSE]]
    /\ UNCHANGED <<decisions, snapshots, traces, nano, ingestVars, breakerVars, now, callerVars, policyVars, schedVars,
                   actionVars, featureVars, lateVars>>

\* s.decisionStore.Store(ctx, decisionRecord); an error is logged and ignored
MakeDecisionStore(c) ==
    /\ dpc[c] = "store"
    /\ LET rec == [decision_id |-> dcall[c].decision_id,
                   idempotency_key |-> dcall[c].idempotency_key,
                   snapshot_id |-> DecisionSnapshotID(FeaturesServiceID),
                   decision_result |-> DecisionResultOf(dcall[c].action),
                   actions |-> dcall[c].action]
           st == DecisionStoreStore(decisions, rec) IN
       /\ decisions' = st.rows
       /\ dcall' = [dcall EXCEPT ![c].conflict = st.conflict]
    /\ dpc' = [dpc EXCEPT ![c] = "trace"]
    /\ UNCHANGED <<snapshots, traces, nano, ingestVars, breakerVars, now, callerVars, policyVars, schedVars,
                   actionVars, featureVars, lateVars>>

\* the DecisionResponse MakeDecision returns to caller c: built from the call's
\* own decisionID, decisionResult and actions
MakeDecisionResponse(c) ==
    [decision_id |-> dcall[c].decision_id,
     decision_result |-> DecisionResultOf(dcall[c].action),
     actions |-> dcall[c].action]

\* s.decisionStore.StoreTrace(ctx, trace), an error logged and ignored; then the
\* call returns MakeDecisionResponse(c)
MakeDecisionReturn(c) ==
    /\ dpc[c] = "trace"
    /\ traces' = StoreTrace(traces, decisions,
                            [trace_id |-> dcall[c].decision_id, decision_id |-> dcall[c].decision_id])
    /\ dpc' = [dpc EXCEPT ![c] = "idle"]
    /\ dcall' = [dcall EXCEPT ![c] = NoCall]
    /\ UNCHANGED <<decisions, snapshots, nano, ingestVars, breakerVars, now, callerVars, policyVars, schedVars,
                   actionVars, featureVars, lateVars>>

\* the clock advances
NanoTick ==
    /\ nano < MaxNano
    /\ nano' = nano + 1
    /\ UNCHANGED <<decisions, snapshots, traces, dpc, dcall, ingestVars, breakerVars, now, callerVars, policyVars, schedVars,
                   actionVars, featureVars, lateVars>>

CalculateFeaturesStep ==
    \E hasEvents \in BOOLEAN, hasFeatureStore \in BOOLEAN : CalculateFeatures(hasEvents, hasFeatureStore)

MakeDecisionBeginStep ==
    \E c \in DecisionCallers, key \in KeyPool, action \in ActionInputs : MakeDecisionBegin(c, key, action)

MakeDecisionStoreStep ==
    \E c \in DecisionCallers : MakeDecisionStore(c)

MakeDecisionReturnStep ==
    \E c \in DecisionCallers : MakeDecisionReturn(c)

(***************************************************************************)
(* Circuit breaker                                                         *)
(***************************************************************************)
\* largest MaxFailures of the configurations explored
MaxCfgFailures == 2
\* largest HalfOpenMaxCalls of the configurations explored
MaxCfgHalfOpenCalls == 2
\* largest ResetTimeout, in clock ticks, of the configurations explored
MaxCfgResetTimeout == 2
\* last value of the wall clock explored
MaxTime == 4
\* number of concurrent callers of one breaker
NumCallers == 2

Callers == 1..NumCallers

\* Config values passed to New: positive thresholds, a timeout in clock ticks
Configs ==
    [MaxFailures : 1..MaxCfgFailures, ResetTimeout : 1..MaxCfgResetTimeout,
     HalfOpenMaxCalls : 1..MaxCfgHalfOpenCalls]

\* the breaker fields as one value
Breaker == [state |-> state, failures |-> failures, successes |-> successes, lastFailure |-> lastFailure]

\* time.Since(cb.lastFailure) > cb.config.ResetTimeout
ResetTimeoutElapsed(b, t) == t - b.lastFailure > cfg.ResetTimeout

\* canExecute leaving open as soon as ResetTimeout is reached, keeping the old
\* success count
canExecute_EarlyHalfOpen(b, t) ==
    IF b.state = "closed" THEN [admit |-> TRUE, b |-> b]
    ELSE IF b.state = "open"
    THEN IF t - b.lastFailure >= cfg.ResetTimeout
         THEN [admit |-> TRUE, b |-> [b EXCEPT !.state = "half_open"]]
         ELSE [admit |-> FALSE, b |-> b]
    ELSE IF b.successes >= cfg.HalfOpenMaxCalls
         THEN [admit |-> FALSE, b |-> b]
         ELSE [admit |-> TRUE, b |-> b]

\* CircuitBreaker.canExecute at time t: whether the call is admitted, and the
\* breaker afterwards
canExecute(b, t) ==
    IF b.state = "closed" THEN [admit |-> TRUE, b |-> b]
    ELSE IF b.state = "open"
    THEN IF ResetTimeoutElapsed(b, t)
         THEN [admit |-> TRUE, b |-> [b EXCEPT !.state = "half_open", !.successes = 0]]
         ELSE [admit |-> FALSE, b |-> b]
    ELSE IF b.successes >= cfg.HalfOpenMaxCalls
         THEN [admit |-> FALSE, b |-> b]
         ELSE [admit |-> TRUE, b |-> b]

\* recordResult whose success in closed leaves the failure count as it is
recordResult_NoResetOnSuccess(b, ok, t) ==
    IF ok
    THEN IF b.state = "half_open"
         THEN IF b.successes + 1 >= cfg.HalfOpenMaxCalls
              THEN [b EXCEPT !.state = "closed", !.failures = 0, !.successes = 0]
              ELSE [b EXCEPT !.successes = b.successes + 1]
         ELSE b
    ELSE IF b.state = "closed"
         THEN [b EXCEPT !.failures = b.failures + 1, !.lastFailure = t,
                        !.state = IF b.failures + 1 >= cfg.MaxFailures THEN "open" ELSE "closed"]
         ELSE IF b.state = "half_open"
         THEN [b EXCEPT !.state = "open", !.lastFailure = t]
         ELSE b

\* recordResult that closes the breaker on the first half-open success
recordResult_ClosesOnFirstSuccess(b, ok, t) ==
    IF ok
    THEN IF b.state = "closed"
         THEN [b EXCEPT !.failures = 0]
         ELSE IF b.state = "half_open"
         THEN [b EXCEPT !.state = "closed", !.failures = 0, !.successes = 0]
         ELSE b
    ELSE IF b.state = "closed"
         THEN [b EXCEPT !.failures = b.failures + 1, !.lastFailure = t,
                        !.state = IF b.failures + 1 >= cfg.MaxFailures THEN "open" ELSE "closed"]
         ELSE IF b.state = "half_open"
         THEN [b EXCEPT !.state = "open", !.lastFailure = t]
         ELSE b

\* recordResult that opens the breaker on the first failure recorded while closed
recordResult_OpensOnFirstFailure(b, ok, t) ==
    IF ok
    THEN IF b.state = "closed"
         THEN [b EXCEPT !.failures = 0]
         ELSE IF b.state = "half_open"
         THEN IF b.successes + 1 >= cfg.HalfOpenMaxCalls
              THEN [b EXCEPT !.state = "closed", !.failures = 0, !.successes = 0]
              ELSE [b EXCEPT !.successes = b.successes + 1]
         ELSE b
    ELSE IF b.state = "closed"
         THEN [b EXCEPT !.failures = b.failures + 1, !.lastFailure = t, !.state = "open"]
         ELSE IF b.state = "half_open"
         THEN [b EXCEPT !.state = "open", !.lastFailure = t]
         ELSE b

\* CircuitBreaker.recordResult(err) at time t; ok is err == nil
recordResult(b, ok, t) ==
    IF ok
    THEN IF b.state = "closed"
         THEN [b EXCEPT !.failures = 0]
         ELSE IF b.state = "half_open"
         THEN IF b.successes + 1 >= cfg.HalfOpenMaxCalls
              THEN [b EXCEPT !.state = "closed", !.failures = 0, !.successes = 0]
              ELSE [b EXCEPT !.successes = b.successes + 1]
         ELSE b
    ELSE IF b.state = "closed"
         THEN [b EXCEPT !.failures = b.failures + 1, !.lastFailure = t,
                        !.state = IF b.failures + 1 >= cfg.MaxFailures THEN "open" ELSE "closed"]
         ELSE IF b.state = "half_open"
         THEN [b EXCEPT !.state = "open", !.lastFailure = t]
         ELSE b

\* the breaker variables take the value b
SetBreaker(b) ==
    /\ state' = b.state
    /\ failures' = b.failures
    /\ successes' = b.successes
    /\ lastFailure' = b.lastFailure
    /\ cfg' = cfg

\* bookkeeping of an admission decision r = canExecute(Breaker, now); trials
\* stops counting once it is past HalfOpenMaxCalls
NoteAdmission(r) ==
    /\ trials' = IF r.b.state # "half_open" THEN 0
                 ELSE IF ~r.admit THEN trials
                 ELSE IF state = "open" THEN 1
                 ELSE IF trials > cfg.HalfOpenMaxCalls THEN trials
                 ELSE trials + 1
    /\ hoSuccesses' = IF r.b.state = "half_open" /\ state = "half_open" THEN hoSuccesses ELSE 0

\* bookkeeping of a recorded outcome that takes the breaker from Breaker to b
NoteResult(b, ok) ==
    /\ streak' = IF b.state = "closed" /\ state # "closed" THEN 0
                 ELSE IF state # "closed" THEN streak
                 ELSE IF ok THEN 0
                 ELSE streak + 1
    /\ trials' = IF b.state = "half_open" THEN trials ELSE 0
    /\ hoSuccesses' = IF state # "half_open" THEN 0
                      ELSE IF ok THEN hoSuccesses + 1
                      ELSE hoSuccesses

IdleCall == [kind |-> "none"]

\* Execute / ExecuteWithFallback up to and including canExecute; admitted notes
\* the state canExecute left the breaker in when it admitted the call.  A rejected
\* Execute (or ExecuteWithFallback with a nil fallback) returns the error; with
\* a fallback the fallback runs.
ExecuteBegin(c, kind) ==
    /\ pc[c] = "idle"
    /\ LET r == canExecute(Breaker, now) IN
       /\ SetBreaker(r.b)
       /\ NoteAdmission(r)
       /\ pc' = [pc EXCEPT ![c] = IF r.admit THEN "fn"
                                  ELSE IF kind = "ExecuteWithFallback" THEN "fallback"
                                  ELSE "rejected"]
       /\ call' = [call EXCEPT ![c] = [kind |-> kind,
                                       admitted |-> IF r.admit THEN r.b.state ELSE ""]]
    /\ UNCHANGED <<now, streak, failedDests, maxRetries, ingestVars, decisionVars, policyVars, schedVars,
                   actionVars, featureVars, lateVars>>

\* a rejected Execute returns the circuit-open error to its caller
ExecuteRejected(c) ==
    /\ pc[c] = "rejected"
    /\ pc' = [pc EXCEPT ![c] = "idle"]
    /\ call' = [call EXCEPT ![c] = IdleCall]
    /\ UNCHANGED <<breakerVars, now, streak, trials, hoSuccesses, failedDests, maxRetries,
                   ingestVars, decisionVars, policyVars, schedVars,
                   actionVars, featureVars, lateVars>>

\* fn returns (ok is err == nil) and recordResult runs; ExecuteWithFallback then
\* runs the fallback when fn failed
ExecuteEnd(c, ok) ==
    /\ pc[c] = "fn"
    /\ LET b == recordResult(Breaker, ok, now) IN
       /\ SetBreaker(b)
       /\ NoteResult(b, ok)
    /\ IF ~ok /\ call[c].kind = "ExecuteWithFallback"
       THEN /\ pc' = [pc EXCEPT ![c] = "fallback"]
            /\ call' = call
       ELSE /\ pc' = [pc EXCEPT ![c] = "idle"]
            /\ call' = [call EXCEPT ![c] = IdleCall]
    /\ UNCHANGED <<now, failedDests, maxRetries, ingestVars, decisionVars, policyVars, schedVars,
                   actionVars, featureVars, lateVars>>

\* the fallback returns, and with it ExecuteWithFallback
FallbackReturn(c) ==
    /\ pc[c] = "fallback"
    /\ pc' = [pc EXCEPT ![c] = "idle"]
    /\ call' = [call EXCEPT ![c] = IdleCall]
    /\ UNCHANGED <<breakerVars, now, streak, trials, hoSuccesses, failedDests, maxRetries,
                   ingestVars, decisionVars, policyVars, schedVars,
                   actionVars, featureVars, lateVars>>

\* Reset that leaves the failure count as it is
Reset_KeepsFailures ==
    /\ state' = "closed"
    /\ successes' = 0
    /\ streak' = 0
    /\ trials' = 0
    /\ hoSuccesses' = 0
    /\ UNCHANGED <<failures, cfg, lastFailure, now, pc, call, failedDests, maxRetries,
                   ingestVars, decisionVars, policyVars, schedVars,
                   actionVars, featureVars, lateVars>>

\* CircuitBreaker.Reset
Reset ==
    /\ state' = "closed"
    /\ failures' = 0
    /\ successes' = 0
    /\ streak' = 0
    /\ trials' = 0
    /\ hoSuccesses' = 0
    /\ UNCHANGED <<cfg, lastFailure, now, pc, call, failedDests, maxRetries,
                   ingestVars, decisionVars, policyVars, schedVars,
                   actionVars, featureVars, lateVars>>

\* the wall clock advances
Tick ==
    /\ now < MaxTime
    /\ now' = now + 1
    /\ UNCHANGED <<breakerVars, callerVars, ingestVars, decisionVars, policyVars, schedVars,
                   actionVars, featureVars, lateVars>>

ExecuteBeginStep ==
    \E c \in Callers, kind \in {"Execute", "ExecuteWithFallback"} : ExecuteBegin(c, kind)

ExecuteRejectedStep ==
    \E c \in Callers : ExecuteRejected(c)

ExecuteEndStep ==
    \E c \in Callers, ok \in BOOLEAN : ExecuteEnd(c, ok)

FallbackReturnStep ==
    \E c \in Callers : FallbackReturn(c)

(***************************************************************************)
(* Webhook client                                                          *)
(***************************************************************************)
\* largest Config.MaxRetries of the webhook clients explored
MaxRetriesBound == 2
\* number of concurrent callers of Send on one client
NumSenders == 1

Senders == 1..NumSenders

\* destinations (Request.URL) the senders deliver to
Dests == {"d1", "d2"}

\* HTTP status codes a destination answers with
Statuses == {200, 400, 500, 503}

\* what httpClient.Do yields for one attempt: a transport error, or a response
\* with a status code that carries response headers or none
Answers ==
    {[kind |-> "transport"]} \cup
    [kind : {"response"}, status : Statuses, headers : BOOLEAN]

\* doRequest: "err" when httpClient.Do fails, "panic" when a response header is
\* copied into the nil Headers map of the new Response, else "resp"
doRequest(answer) ==
    IF answer.kind = "transport" THEN "err"
    ELSE IF answer.headers THEN "panic"
    ELSE "resp"

\* the test of sendWithRetries on one attempt: err == nil && resp.StatusCode < 500
AttemptSucceeds(answer) ==
    doRequest(answer) = "resp" /\ answer.status < 500

\* the loop of sendWithRetries goes on after the failed attempt with this index
MoreAttempts(attempt) == attempt < maxRetries

\* Client.Send up to the first attempt: url.Parse, then Execute's canExecute
SendBegin(c, dest, urlOk) ==
    /\ pc[c] = "idle"
    /\ IF ~urlOk
       THEN /\ pc' = [pc EXCEPT ![c] = "sent"]
            /\ call' = [call EXCEPT ![c] = [kind |-> "Send", dest |-> dest, attempts |-> 0,
                                            recorded |-> 0, last |-> "none", ret |-> "invalid_url"]]
            /\ UNCHANGED <<breakerVars, trials, hoSuccesses>>
       ELSE LET r == canExecute(Breaker, now) IN
            /\ SetBreaker(r.b)
            /\ NoteAdmission(r)
            /\ pc' = [pc EXCEPT ![c] = IF r.admit THEN "sending" ELSE "sent"]
            /\ call' = [call EXCEPT ![c] = [kind |-> "Send", dest |-> dest, attempts |-> 0,
                                            recorded |-> 0, last |-> "none",
                                            ret |-> IF r.admit THEN "none" ELSE "circuit_open"]]
    /\ UNCHANGED <<now, streak, failedDests, maxRetries, ingestVars, decisionVars, policyVars, schedVars, featureVars, lateVars>>

\* one iteration of the loop of sendWithRetries; the last one returns through
\* Execute, which records the outcome of the whole Send on the breaker.  A
\* panic of doRequest unwinds Send and Execute without recordResult.
DoRequest(c, answer) ==
    /\ pc[c] = "sending"
    /\ LET attempt == call[c].attempts
           r == doRequest(answer)
           cl == [call[c] EXCEPT !.attempts = attempt + 1,
                                 !.last = IF r = "err" THEN "transport"
                                          ELSE IF answer.status < 500 THEN "below500" ELSE "5xx"]
       IN
       IF r = "panic"
       THEN /\ pc' = [pc EXCEPT ![c] = "sent"]
            /\ call' = [call EXCEPT ![c] = [cl EXCEPT !.ret = "panic"]]
            /\ UNCHANGED <<breakerVars, streak, trials, hoSuccesses, failedDests>>
       ELSE IF AttemptSucceeds(answer)
       THEN LET b == recordResult(Breaker, TRUE, now) IN
            /\ SetBreaker(b)
            /\ NoteResult(b, TRUE)
            /\ pc' = [pc EXCEPT ![c] = "sent"]
            /\ call' = [call EXCEPT ![c] = [cl EXCEPT !.ret = "ok", !.recorded = 1]]
            /\ UNCHANGED failedDests
       ELSE IF MoreAttempts(attempt)
       THEN /\ pc' = pc
            /\ call' = [call EXCEPT ![c] = cl]
            /\ UNCHANGED <<breakerVars, streak, trials, hoSuccesses, failedDests>>
       ELSE LET b == recordResult(Breaker, FALSE, now) IN
            /\ SetBreaker(b)
            /\ NoteResult(b, FALSE)
            /\ pc' = [pc EXCEPT ![c] = "sent"]
            /\ call' = [call EXCEPT ![c] = [cl EXCEPT !.ret = "error", !.recorded = 1]]
            /\ failedDests' = failedDests \cup {call[c].dest}
    /\ UNCHANGED <<now, maxRetries, ingestVars, decisionVars, policyVars, schedVars, featureVars, lateVars>>

\* Send has returned (or its panic has been recovered); the sender is free again
SendReturn(c) ==
    /\ pc[c] = "sent"
    /\ pc' = [pc EXCEPT ![c] = "idle"]
    /\ call' = [call EXCEPT ![c] = IdleCall]
    /\ UNCHANGED <<breakerVars, now, streak, trials, hoSuccesses, failedDests, maxRetries,
                   ingestVars, decisionVars, policyVars, schedVars, featureVars, lateVars>>

SendBeginStep ==
    /\ \E c \in Senders, dest \in Dests, urlOk \in BOOLEAN : SendBegin(c, dest, urlOk)
    /\ UNCHANGED actionVars

DoRequestStep ==
    /\ \E c \in Senders, answer \in Answers : DoRequest(c, answer)
    /\ UNCHANGED actionVars

SendReturnStep ==
    /\ \E c \in Senders : SendReturn(c)
    /\ UNCHANGED actionVars

(***************************************************************************)
(* Policy engine                                                           *)
(***************************************************************************)
\* most nodes of a condition tree given to evaluateCondition
MaxCondNodes == 4
\* most rules of a policy
MaxRules == 3

\* scalar values of the DSL and of feature fields, tagged with their Go type;
\* numbers stand for float64 / int values
Num(n) == [t |-> "num", v |-> n]
Str(s) == [t |-> "str", v |-> s]
NoValue == [t |-> "nil"]

\* Condition.Not == nil
NoCond == [nil |-> TRUE]

\* the zero Condition
EmptyCond ==
    [All |-> <<>>, Any |-> <<>>, Not |-> NoCond, Fact |-> "", Op |-> "", Value |-> NoValue]

AllOf(children) == [EmptyCond EXCEPT !.All = children]
AnyOf(children) == [EmptyCond EXCEPT !.Any = children]
NotOf(child) == [EmptyCond EXCEPT !.Not = child]
Leaf(fact, op, value) == [EmptyCond EXCEPT !.Fact = fact, !.Op = op, !.Value = value]

\* models.ServiceFeatures, the fields the DSL can name here; scores in hundredths
Features(cpu, health) ==
    [ServiceID |-> Str("svc-a"), CPUCurrent |-> Num(cpu), CPUTrend |-> Str("stable"),
     LatencyP95 |-> Num(0), ErrorRate |-> Num(0), RequestsPerSec |-> Num(0),
     QueueDepth |-> Num(0), HealthScore |-> Num(health), LoadScore |-> Num(0)]

FeatureInputs == {Features(cpu, health) : cpu \in {10, 90}, health \in {20, 90}}

\* the alias switch of getFactValue
FactAliases ==
    [cpu |-> "CPUCurrent", latency |-> "LatencyP95", error_rate |-> "ErrorRate",
     rps |-> "RequestsPerSec", queue_depth |-> "QueueDepth",
     health_score |-> "HealthScore", load_score |-> "LoadScore"]

\* getFactValue: the field named fact, else the field its alias names, else nil
getFactValue(fact, features) ==
    IF fact \in DOMAIN features THEN features[fact]
    ELSE IF fact \in DOMAIN FactAliases THEN features[FactAliases[fact]]
    ELSE NoValue

\* fmt.Sprintf("%v", n) for a natural number
RECURSIVE FormatNat(_)
FormatNat(n) ==
    LET digit == <<"0", "1", "2", "3", "4", "5", "6", "7", "8", "9">>[(n % 10) + 1] IN
    IF n < 10 THEN digit ELSE FormatNat(n \div 10) \o digit

\* fmt.Sprintf("%v", v)
Format(v) ==
    IF v.t = "num" THEN FormatNat(v.v)
    ELSE IF v.t = "str" THEN v.v
    ELSE "<nil>"

\* compare: numeric when both sides are numbers, else == / != on the printed values
compare(factValue, op, targetValue) ==
    IF factValue.t # "num" \/ targetValue.t # "num"
    THEN IF op = "==" THEN Format(factValue) = Format(targetValue)
         ELSE IF op = "!=" THEN Format(factValue) # Format(targetValue)
         ELSE FALSE
    ELSE LET f == factValue.v
             t == targetValue.v
         IN IF op = ">" THEN f > t
            ELSE IF op = ">=" THEN f >= t
            ELSE IF op = "<" THEN f < t
            ELSE IF op = "<=" THEN f <= t
            ELSE IF op = "==" THEN f = t
            ELSE IF op = "!=" THEN f # t
            ELSE FALSE

\* evaluateCondition in which a non-empty any list is the AND of its children
RECURSIVE evaluateCondition_AnyAsAll(_, _)
evaluateCondition_AnyAsAll(cond, features) ==
    IF Len(cond.All) > 0
    THEN \A i \in 1..Len(cond.All) : evaluateCondition_AnyAsAll(cond.All[i], features)
    ELSE IF Len(cond.Any) > 0
    THEN \A i \in 1..Len(cond.Any) : evaluateCondition_AnyAsAll(cond.Any[i], features)
    ELSE IF cond.Not # NoCond
    THEN ~evaluateCondition_AnyAsAll(cond.Not, features)
    ELSE IF cond.Fact = "" \/ cond.Op = "" THEN TRUE
    ELSE IF getFactValue(cond.Fact, features) = NoValue THEN FALSE
    ELSE compare(getFactValue(cond.Fact, features), cond.Op, cond.Value)

\* Engine.evaluateCondition
RECURSIVE evaluateCondition(_, _)
evaluateCondition(cond, features) ==
    IF Len(cond.All) > 0
    THEN \A i \in 1..Len(cond.All) : evaluateCondition(cond.All[i], features)
    ELSE IF Len(cond.Any) > 0
    THEN \E i \in 1..Len(cond.Any) : evaluateCondition(cond.Any[i], features)
    ELSE IF cond.Not # NoCond
    THEN ~evaluateCondition(cond.Not, features)
    ELSE IF cond.Fact = "" \/ cond.Op = "" THEN TRUE
    ELSE IF getFactValue(cond.Fact, features) = NoValue THEN FALSE
    ELSE compare(getFactValue(cond.Fact, features), cond.Op, cond.Value)

\* leaves a policy file can hold: fact empty, a field, an alias, a string
\* field or an unknown name; op missing, known or unknown; a number or a string
LeafConds ==
    {Leaf(fact, op, value) :
        fact \in {"", "CPUCurrent", "cpu", "ServiceID", "no_such_fact"},
        op \in {"", ">=", "<", "==", "!=", "~"},
        value \in {Num(50), Num(90), Str("90"), Str("svc-a"), NoValue}}

\* the leaves used inside larger trees: the empty one, a comparison and a
\* leaf on an unknown fact
TreeLeaves ==
    {EmptyCond, Leaf("cpu", ">=", Num(50)), Leaf("no_such_fact", ">=", Num(50))}

\* condition trees of exactly n nodes whose nodes carry one of all / any / not
\* / leaf, and the sequences of such trees with n nodes in total
RECURSIVE CondTrees(_), CondForests(_)
CondTrees(n) ==
    IF n = 1 THEN TreeLeaves
    ELSE {NotOf(t) : t \in CondTrees(n - 1)}
         \cup {AllOf(f) : f \in CondForests(n - 1)}
         \cup {AnyOf(f) : f \in CondForests(n - 1)}

CondForests(n) ==
    IF n = 0 THEN {<<>>}
    ELSE UNION {{<<t>> \o f : t \in CondTrees(k), f \in CondForests(n - k)} : k \in 1..n}

ConditionInputs == LeafConds \cup UNION {CondTrees(n) : n \in 1..MaxCondNodes}

\* evaluateCondition is called on one (condition, features) pair
EvaluateCondition ==
    /\ condOut = NoRow
    /\ condOut' = [result |-> evaluateCondition(condIn.cond, condIn.features)]
    /\ UNCHANGED <<condIn, evalIn, evalOut, policies, loadOut, lastEvaluated,
                   ingestVars, decisionVars, breakerVars, now, callerVars, schedVars,
                   actionVars, featureVars, lateVars>>

\* conditions of the rules of the policies evaluated: always true, or cpu >= 50
RuleConds == {EmptyCond, Leaf("cpu", ">=", Num(50))}

\* rule priorities of the policies evaluated
Priorities == {50, 100}

\* the rule declared at position i of a policy
RuleAt(i, priority, when) ==
    [ID |-> <<"r1", "r2", "r3", "r4", "r5">>[i], Name |-> "rule", Priority |-> priority,
     When |-> when, Action |-> [Type |-> "scale_up"]]

\* rule lists of n rules with distinct ids
RuleLists(n) ==
    {[i \in 1..n |-> RuleAt(i, f[i][1], f[i][2])] : f \in [1..n -> Priorities \X RuleConds]}

\* policies that pass Validate
ValidPolicies ==
    {[ID |-> "autoscale_policy", Version |-> "1.0", Rules |-> rules] :
        rules \in UNION {RuleLists(n) : n \in 1..MaxRules}}

\* the swap of the sort loop of Evaluate
SwapRules(s, i, j) == [s EXCEPT ![i] = s[j], ![j] = s[i]]

\* the inner loop of the sort, from index j, for outer index i
RECURSIVE SortInner(_, _, _)
SortInner(s, i, j) ==
    IF j > Len(s) THEN s
    ELSE SortInner(IF s[i].Priority < s[j].Priority THEN SwapRules(s, i, j) ELSE s, i, j + 1)

\* the outer loop of the sort, from index i
RECURSIVE SortOuter(_, _)
SortOuter(s, i) ==
    IF i > Len(s) THEN s ELSE SortOuter(SortInner(s, i, i + 1), i + 1)

\* Evaluate walking the rules in declaration order
sortedRules_Unsorted(rules) == rules

\* sortedRules of Evaluate: the copy of policy.Rules after the sort loops
sortedRules(rules) == SortOuter(rules, 1)

\* calculateConfidence, in hundredths
calculateConfidence(rule, features) ==
    LET base == 80 + (IF rule.Priority > 50 THEN 10 ELSE 0)
                   - (IF features.HealthScore.v < 30 THEN 15 ELSE 0)
    IN IF base > 100 THEN 100 ELSE IF base < 0 THEN 0 ELSE base

\* Engine.evaluateRule
evaluateRule(rule, features) ==
    IF ~evaluateCondition(rule.When, features)
    THEN [Matched |-> FALSE, RuleID |-> rule.ID, Action |-> "", Confidence |-> 100]
    ELSE [Matched |-> TRUE, RuleID |-> rule.ID, Action |-> rule.Action.Type,
          Confidence |-> calculateConfidence(rule, features)]

\* the rule loop of Evaluate from index i, allResults being acc so far
RECURSIVE EvaluateFrom(_, _, _, _)
EvaluateFrom(sorted, i, features, acc) ==
    IF i > Len(sorted)
    THEN [result |-> [Matched |-> FALSE, RuleID |-> "", Action |-> "", Confidence |-> 100],
          allResults |-> acc]
    ELSE LET r == evaluateRule(sorted[i], features) IN
         IF r.Matched
         THEN [result |-> r, allResults |-> Append(acc, r)]
         ELSE EvaluateFrom(sorted, i + 1, features, Append(acc, r))

\* Engine.Evaluate: the result and the results of all rules evaluated
EngineEvaluate(policy, features) ==
    EvaluateFrom(sortedRules(policy.Rules), 1, features, <<>>)

\* Engine.Evaluate is called on evalIn; rulesAfter is policy.Rules as the
\* caller sees it afterwards
Evaluate ==
    /\ evalOut = NoRow
    /\ LET out == EngineEvaluate(evalIn.policy, evalIn.features) IN
       evalOut' = [result |-> out.result, allResults |-> out.allResults,
                   rulesAfter |-> evalIn.policy.Rules]
    /\ UNCHANGED <<condIn, condOut, evalIn, policies, loadOut, lastEvaluated,
                   ingestVars, decisionVars, breakerVars, now, callerVars, schedVars,
                   actionVars, featureVars, lateVars>>

\* rule lists of n rules without conditions, all of priority 50
PlainRules(n) == [i \in 1..n |-> RuleAt(i, 50, EmptyCond)]

\* well-formed policy files
GoodPolicyFiles ==
    {[ID |-> id, Version |-> "1.0", Rules |-> PlainRules(n)] :
        id \in {"autoscale_policy", "p2"}, n \in 1..MaxRules}

\* a well-formed policy with one defect: no id, no version, no rules, or one
\* rule with no id, the id of its predecessor, no name or no action type
DefectivePolicyFiles ==
    UNION {
        {[p EXCEPT !.ID = ""], [p EXCEPT !.Version = ""], [p EXCEPT !.Rules = <<>>]}
        \cup {[p EXCEPT !.Rules[i].ID = ""] : i \in 1..Len(p.Rules)}
        \cup {[p EXCEPT !.Rules[i].ID = p.Rules[i - 1].ID] : i \in 2..Len(p.Rules)}
        \cup {[p EXCEPT !.Rules[i].Name = ""] : i \in 1..Len(p.Rules)}
        \cup {[p EXCEPT !.Rules[i].Action.Type = ""] : i \in 1..Len(p.Rules)}
        : p \in GoodPolicyFiles}

\* what a path given to LoadPolicy can lead to: no readable file, a file that
\* is not YAML for a Policy, or a parsed policy
PolicyFiles ==
    {[kind |-> "unreadable"], [kind |-> "unparsable"]}
    \cup {[kind |-> "policy", policy |-> p] : p \in GoodPolicyFiles \cup DefectivePolicyFiles}

\* validateRule
validateRule(r) ==
    IF r.Name = "" THEN "rule.name"
    ELSE IF r.Action.Type = "" THEN "rule.action.type"
    ELSE "ok"

\* the rule loop of Validate from index i, seen being the keys of ruleIDs
RECURSIVE ValidateRules(_, _, _)
ValidateRules(rules, i, seen) ==
    IF i > Len(rules) THEN "ok"
    ELSE IF rules[i].ID = "" THEN "rule.id"
    ELSE IF rules[i].ID \in seen THEN "rule.id"
    ELSE IF validateRule(rules[i]) # "ok" THEN validateRule(rules[i])
    ELSE ValidateRules(rules, i + 1, seen \cup {rules[i].ID})

\* Validate without the duplicate rule id check
Validate_NoDuplicateCheck(p) ==
    IF p.ID = "" THEN "id"
    ELSE IF p.Version = "" THEN "version"
    ELSE IF Len(p.Rules) = 0 THEN "rules"
    ELSE IF \E i \in 1..Len(p.Rules) : p.Rules[i].ID = "" THEN "rule.id"
    ELSE IF \E i \in 1..Len(p.Rules) : validateRule(p.Rules[i]) # "ok" THEN "rule"
    ELSE "ok"

\* Policy.Validate: "ok" or the field of the PolicyValidationError
PolicyValidate(p) ==
    IF p.ID = "" THEN "id"
    ELSE IF p.Version = "" THEN "version"
    ELSE IF Len(p.Rules) = 0 THEN "rules"
    ELSE ValidateRules(p.Rules, 1, {})

\* LoadPolicy: the policy, or an error
LoadPolicy(file) ==
    IF file.kind = "unreadable" THEN [err |-> "read"]
    ELSE IF file.kind = "unparsable" THEN [err |-> "parse"]
    ELSE IF PolicyValidate(file.policy) # "ok" THEN [err |-> "invalid"]
    ELSE [err |-> "none", policy |-> file.policy]

\* handleLoadPolicy for a path that leads to file
handleLoadPolicy(file) ==
    /\ LET r == LoadPolicy(file) IN
       IF r.err # "none"
       THEN /\ loadOut' = [file |-> file, status |-> 400]
            /\ policies' = policies
       ELSE /\ loadOut' = [file |-> file, status |-> 200]
            /\ policies' = [id \in DOMAIN policies \cup {r.policy.ID} |->
                               IF id = r.policy.ID THEN r.policy ELSE policies[id]]
    /\ UNCHANGED <<condIn, condOut, evalIn, evalOut, lastEvaluated,
                   ingestVars, decisionVars, breakerVars, now, callerVars, schedVars,
                   actionVars, featureVars, lateVars>>

\* handleEvaluate up to its call of MakeDecision: the policy looked up in
\* Handler.policies is the one the decision is made with
handleEvaluate(serviceID, policyID) ==
    /\ serviceID # ""
    /\ LET id == IF policyID = "" THEN "autoscale_policy" ELSE policyID IN
       /\ id \in DOMAIN policies
       /\ lastEvaluated' = policies[id]
    /\ UNCHANGED <<condIn, condOut, evalIn, evalOut, policies, loadOut,
                   ingestVars, decisionVars, breakerVars, now, callerVars, schedVars,
                   actionVars, featureVars, lateVars>>

\* LoadDefaultPolicy, policies/autoscale_v1.yaml leading to file
LoadDefaultPolicy(file) ==
    /\ LET r == LoadPolicy(file) IN
       /\ r.err = "none"
       /\ policies' = [id \in DOMAIN policies \cup {r.policy.ID} |->
                          IF id = r.policy.ID THEN r.policy ELSE policies[id]]
    /\ UNCHANGED <<condIn, condOut, evalIn, evalOut, loadOut, lastEvaluated,
                   ingestVars, decisionVars, breakerVars, now, callerVars, schedVars,
                   actionVars, featureVars, lateVars>>

LoadDefaultPolicyStep ==
    \E file \in PolicyFiles : LoadDefaultPolicy(file)

handleLoadPolicyStep ==
    \E file \in PolicyFiles : handleLoadPolicy(file)

handleEvaluateStep ==
    \E serviceID \in {"", "svc-a"}, policyID \in {"", "autoscale_policy", "p2", "p3"} :
        handleEvaluate(serviceID, policyID)

(***************************************************************************)
(* Scheduler                                                               *)
(***************************************************************************)
\* number of distinct job ids offered to Schedule
NumJobs == 3
\* the latest ExecuteAt offered to Schedule
MaxExecuteAt == 1
\* run goroutines alive at the same time
MaxLoops == 2

JobIds == {"job-1", "job-2", "job-3", "job-4", "job-5"}

JobIdSeq == <<"job-1", "job-2", "job-3", "job-4", "job-5">>

JobIdPool == {j \in JobIds : \E i \in 1..NumJobs : j = JobIdSeq[i]}

ExecuteTimes == 0..MaxExecuteAt

LoopIds == 1..MaxLoops

\* Job: the scheduler reads ID and ExecuteAt only; Payload and Handler are
\* opaque to it and Index is written by Swap/Push/Pop and never read
Job(id, at) == [ID |-> id, ExecuteAt |-> at]

\* time.Time.Before
Before(a, b) == a < b

After_Never(a, b) == FALSE

\* time.Time.After
After(a, b) == a > b

\* jq[i], with the 0-based index of the source
At(jq, i) == jq[i + 1]

\* JobQueue.Less
Less(jq, i, j) == Before(At(jq, i).ExecuteAt, At(jq, j).ExecuteAt)

\* JobQueue.Swap
Swap(jq, i, j) == [jq EXCEPT ![i + 1] = jq[j + 1], ![j + 1] = jq[i + 1]]

\* JobQueue.Push: append
Push(jq, job) == Append(jq, job)

\* JobQueue.Pop: drop the last element (which is the one returned)
Pop(jq) == SubSeq(jq, 1, Len(jq) - 1)

\* container/heap.up, driven by Less and Swap
RECURSIVE up(_, _)
up(jq, j) ==
    LET i == IF j = 0 THEN 0 ELSE (j - 1) \div 2
    IN  IF i = j \/ ~Less(jq, j, i)
        THEN jq
        ELSE up(Swap(jq, i, j), i)

\* container/heap.down, driven by Less and Swap; i is where the element came to rest
RECURSIVE down(_, _, _)
down(jq, i, n) ==
    LET j1 == 2 * i + 1
    IN  IF j1 >= n
        THEN [jq |-> jq, i |-> i]
        ELSE LET j == IF j1 + 1 < n /\ Less(jq, j1 + 1, j1) THEN j1 + 1 ELSE j1
             IN  IF ~Less(jq, j, i)
                 THEN [jq |-> jq, i |-> i]
                 ELSE down(Swap(jq, i, j), j, n)

\* heap.Push(&s.jobs, job)
heapPush(jq, job) == up(Push(jq, job), Len(jq))

\* heap.Pop(&s.jobs): the queue it leaves
heapPop(jq) ==
    LET n == Len(jq) - 1
    IN  Pop(down(Swap(jq, 0, n), 0, n).jq)

heapRemove_Keep(jq, i) == jq

\* heap.Remove(&s.jobs, i): the queue it leaves
heapRemove(jq, i) ==
    LET n == Len(jq) - 1
    IN  IF n # i
        THEN LET d == down(Swap(jq, i, n), i, n)
             IN  Pop(IF ~(d.i > i) THEN up(d.jq, i) ELSE d.jq)
        ELSE Pop(jq)

PendingIds == {jobs[k].ID : k \in 1..Len(jobs)}

NoLoop == [st |-> "none", now |-> 0]

\* an unrecovered panic (close of a closed channel in Stop) ends the process
Alive == stopCall # "panicked"

\* Scheduler.Schedule. A job id names one job: it is offered once, and the
\* ids, which the scheduler only compares for equality, are offered in order.
Schedule(id, at) ==
    /\ Alive
    /\ id \notin PendingIds \cup dispatched \cup canceled
    /\ \A i \in 1..NumJobs :
          JobIdSeq[i] = id => \A k \in 1..(i - 1) : JobIdSeq[k] \in PendingIds \cup dispatched \cup canceled
    /\ jobs' = heapPush(jobs, Job(id, at))
    /\ UNCHANGED <<running, stopChan, ctxDone, loops, workers, dispatched, nDispatched,
                   canceled, stopCall, actionOut,
                   ingestVars, decisionVars, breakerVars, now, callerVars, policyVars,
                   actionVars, featureVars, lateVars>>

\* Scheduler.Cancel: remove the first job of the slice that has the id
Cancel(jobID) ==
    /\ Alive
    /\ LET hits == {i \in 0..(Len(jobs) - 1) : At(jobs, i).ID = jobID}
       IN  IF hits # {}
           THEN /\ jobs' = heapRemove(jobs, CHOOSE i \in hits : \A k \in hits : i <= k)
                /\ canceled' = canceled \cup {jobID}
           ELSE UNCHANGED <<jobs, canceled>>
    /\ UNCHANGED <<running, stopChan, ctxDone, loops, workers, dispatched, nDispatched,
                   stopCall, actionOut,
                   ingestVars, decisionVars, breakerVars, now, callerVars, policyVars,
                   actionVars, featureVars, lateVars>>

\* Scheduler.Start (it returns at once when already running): wg.Add(1); go s.run(ctx)
Start ==
    /\ Alive
    /\ ~running
    /\ \E l \in LoopIds :
          /\ loops[l].st = "none"
          /\ \A k \in LoopIds : k < l => loops[k].st # "none"
          /\ loops' = [loops EXCEPT ![l] = [st |-> "select", now |-> 0]]
    /\ running' = TRUE
    /\ stopCall' = IF stopCall = "returned" THEN "idle" ELSE stopCall
    /\ UNCHANGED <<jobs, stopChan, ctxDone, workers, dispatched, nDispatched,
                   canceled, actionOut,
                   ingestVars, decisionVars, breakerVars, now, callerVars, policyVars,
                   actionVars, featureVars, lateVars>>

\* Scheduler.Stop up to the unlock (it returns at once when not running)
StopBegin ==
    /\ Alive
    /\ stopCall = "idle"
    /\ running
    /\ running' = FALSE
    /\ stopCall' = "close"
    /\ UNCHANGED <<jobs, stopChan, ctxDone, loops, workers, dispatched, nDispatched,
                   canceled, actionOut,
                   ingestVars, decisionVars, breakerVars, now, callerVars, policyVars,
                   actionVars, featureVars, lateVars>>

\* Scheduler.Stop: close(s.stopChan); closing a closed channel panics
StopClose ==
    /\ stopCall = "close"
    /\ IF stopChan = "closed"
       THEN /\ stopCall' = "panicked"
            /\ UNCHANGED stopChan
       ELSE /\ stopChan' = "closed"
            /\ stopCall' = "wait"
    /\ UNCHANGED <<jobs, running, ctxDone, loops, workers, dispatched, nDispatched,
                   canceled, actionOut,
                   ingestVars, decisionVars, breakerVars, now, callerVars, policyVars,
                   actionVars, featureVars, lateVars>>

\* Scheduler.Stop: s.wg.Wait() returns when every run goroutine has called Done
StopWait ==
    /\ stopCall = "wait"
    /\ \A l \in LoopIds : loops[l].st = "none"
    /\ stopCall' = "returned"
    /\ UNCHANGED <<jobs, running, stopChan, ctxDone, loops, workers, dispatched, nDispatched,
                   canceled, actionOut,
                   ingestVars, decisionVars, breakerVars, now, callerVars, policyVars,
                   actionVars, featureVars, lateVars>>

\* the context given to Start is cancelled
CancelCtx ==
    /\ Alive
    /\ ~ctxDone
    /\ ctxDone' = TRUE
    /\ UNCHANGED <<jobs, running, stopChan, loops, workers, dispatched, nDispatched,
                   canceled, stopCall, actionOut,
                   ingestVars, decisionVars, breakerVars, now, callerVars, policyVars,
                   actionVars, featureVars, lateVars>>

\* one turn of the loop of processDueJobs with the lock held, t being the now
\* the tick captured: look at jobs[0]; if it is due pop the heap, unlock and
\* hand the job to a new executeJob goroutine, otherwise leave the loop
processDueJobs(l, t) ==
    IF Len(jobs) > 0 /\ ~After(At(jobs, 0).ExecuteAt, t)
    THEN LET job == At(jobs, 0)
         IN  /\ jobs' = heapPop(jobs)
             /\ workers' = workers \cup {job.ID}
             /\ dispatched' = dispatched \cup {job.ID}
             /\ nDispatched' = nDispatched + 1
             /\ loops' = [loops EXCEPT ![l] = [st |-> "processing", now |-> t]]
    ELSE /\ loops' = [loops EXCEPT ![l] = [st |-> "select", now |-> 0]]
         /\ UNCHANGED <<jobs, workers, dispatched, nDispatched>>

\* run: the select takes <-timer.C; processDueJobs locks, reads time.Now()
\* and makes its first turn
LoopTimer(l) ==
    /\ Alive
    /\ loops[l].st = "select"
    /\ processDueJobs(l, now)
    /\ UNCHANGED <<running, stopChan, ctxDone, canceled, stopCall, actionOut,
                   ingestVars, decisionVars, breakerVars, now, callerVars, policyVars,
                   actionVars, featureVars, lateVars>>

\* processDueJobs: s.mu.Lock() after the go statement, and the next turn
LoopRelock(l) ==
    /\ Alive
    /\ loops[l].st = "processing"
    /\ processDueJobs(l, loops[l].now)
    /\ UNCHANGED <<running, stopChan, ctxDone, canceled, stopCall, actionOut,
                   ingestVars, decisionVars, breakerVars, now, callerVars, policyVars,
                   actionVars, featureVars, lateVars>>

\* run: the select takes <-ctx.Done() or <-s.stopChan; the deferred wg.Done runs
LoopExit(l) ==
    /\ Alive
    /\ loops[l].st = "select"
    /\ ctxDone \/ stopChan = "closed"
    /\ loops' = [loops EXCEPT ![l] = NoLoop]
    /\ UNCHANGED <<jobs, running, stopChan, ctxDone, workers, dispatched, nDispatched,
                   canceled, stopCall, actionOut,
                   ingestVars, decisionVars, breakerVars, now, callerVars, policyVars,
                   actionVars, featureVars, lateVars>>

\* executeJob returns: the handler finished (its error is only logged)
executeJob(id) ==
    /\ Alive
    /\ id \in workers
    /\ workers' = workers \ {id}
    /\ UNCHANGED <<jobs, running, stopChan, ctxDone, loops, dispatched, nDispatched,
                   canceled, stopCall, actionOut,
                   ingestVars, decisionVars, breakerVars, now, callerVars, policyVars,
                   actionVars, featureVars, lateVars>>

\* action.Service.Schedule: an error without scheduled_at, otherwise an
\* ActionResult with status "scheduled"; the Service holds no Scheduler
ServiceSchedule(id, hasScheduledAt, at) ==
    /\ Alive
    /\ actionOut' = IF ~hasScheduledAt
                    THEN [id |-> id, status |-> "error", scheduled_for |-> -1]
                    ELSE [id |-> id, status |-> "scheduled", scheduled_for |-> at]
    /\ UNCHANGED <<jobs, running, stopChan, ctxDone, loops, workers, dispatched, nDispatched,
                   canceled, stopCall,
                   ingestVars, decisionVars, breakerVars, now, callerVars, policyVars,
                   actionVars, featureVars, lateVars>>

\* the wall clock advances; past the latest ExecuteAt every job is due
SchedulerTick ==
    /\ now <= MaxExecuteAt
    /\ Tick

ScheduleStep == \E id \in JobIdPool, at \in ExecuteTimes : Schedule(id, at)

CancelStep == \E id \in JobIdPool : Cancel(id)

LoopTimerStep == \E l \in LoopIds : LoopTimer(l)

LoopRelockStep == \E l \in LoopIds : LoopRelock(l)

LoopExitStep == \E l \in LoopIds : LoopExit(l)

executeJobStep == \E id \in JobIdPool : executeJob(id)

ServiceScheduleStep ==
    \E id \in JobIdPool, at \in ExecuteTimes :
        \/ ServiceSchedule(id, TRUE, at)
        \/ ServiceSchedule(id, FALSE, 0)

(***************************************************************************)
(* Action service                                                          *)
(***************************************************************************)
\* longest list of requests given to ExecuteBatch
MaxBatch == 2

\* webhook.DefaultConfig().MaxRetries, which NewService gives its client
DefaultMaxRetries == 3

\* Execute calls are explored one at a time; the caller is this sender of the
\* service's webhook client
Executor == 1

ActionIdSeq == <<"act-1", "act-2", "act-3">>

\* webhook_url of a request: none, a destination, or a string url.Parse rejects
RequestURLs == {"", "d1", "bad"}

\* ActionRequest.Validate
ActionValidate(req) ==
    IF req.action_id = "" THEN "action_id is required"
    ELSE IF req.decision_id = "" THEN "decision_id is required"
    ELSE IF req.action_type = "" THEN "action_type is required"
    ELSE IF req.target_service = "" THEN "target_service is required"
    ELSE "ok"

\* requests that pass ActionRequest.Validate
WellFormedActions(id) ==
    [action_id : {id}, decision_id : {"dec-1"}, action_type : {"scale_up"},
     target_service : {"svc-a"}, dry_run : BOOLEAN, webhook_url : RequestURLs]

\* the requests offered to Execute under one action id: the well-formed
\* ones, and a delivery request with each required field left empty in turn
ActionRequestsFor(id) ==
    LET base == [action_id |-> id, decision_id |-> "dec-1", action_type |-> "scale_up",
                 target_service |-> "svc-a", dry_run |-> FALSE, webhook_url |-> "d1"]
    IN  WellFormedActions(id)
        \cup {[base EXCEPT !.action_id = ""], [base EXCEPT !.decision_id = ""],
              [base EXCEPT !.action_type = ""], [base EXCEPT !.target_service = ""]}

\* the requests offered as items of a batch under one action id: a dry run,
\* a delivery, a delivery to a URL url.Parse rejects, and a request that fails
\* Validate
BatchRequestsFor(id) ==
    {r \in ActionRequestsFor(id) :
        \/ r.action_id # "" /\ r.decision_id = ""
        \/ ActionValidate(r) = "ok" /\ r.dry_run /\ r.webhook_url = "d1"
        \/ ActionValidate(r) = "ok" /\ ~r.dry_run /\ r.webhook_url \in {"d1", "bad"}}

\* the request lists offered to ExecuteBatch
RECURSIVE BatchesOfLen(_)
BatchesOfLen(n) ==
    IF n = 0 THEN {<<>>}
    ELSE {Append(b, r) : b \in BatchesOfLen(n - 1), r \in BatchRequestsFor(ActionIdSeq[n])}

Batches == UNION {BatchesOfLen(n) : n \in 0..MaxBatch}

IsDryRun_RequestOnly(req) == req.dry_run

\* Execute: DryRun: req.DryRun || s.dryRun
IsDryRun(req) == req.dry_run \/ svc.dryRun

\* Execute: the request's webhook_url, else the service's
TargetURL(req) == IF req.webhook_url # "" THEN req.webhook_url ELSE svc.webhookURL

\* ActionResult: Message is whether Metadata["message"] is set, ErrorMessage
\* whether error_message is non-empty
ActionResult(id, status, message, errmsg, code) ==
    [ActionID |-> id, Status |-> status, Message |-> message, ErrorMessage |-> errmsg,
     ResponseCode |-> code]

NoBatch == [ret |-> "none"]

BatchRunning == batch.ret = "running"

\* an Execute call is inside webhookClient.Send
ExecuteSending == IF exec = NoRow THEN FALSE ELSE exec.phase = "sending"

\* Execute returns (result, err) having made the delivery `delivery`; inside
\* ExecuteBatch the loop replaces the result of a failed call by a result with
\* status failed and the error's text, and appends
ExecuteReturns(req, result, err, delivery) ==
    /\ exec' = [req |-> req, phase |-> "returned", result |-> result, err |-> err,
                delivery |-> delivery]
    /\ batch' = IF BatchRunning
                THEN LET r == IF err THEN ActionResult(req.action_id, "failed", FALSE, TRUE, 0)
                                     ELSE result
                         rs == Append(batch.results, r)
                     IN  [batch EXCEPT !.results = rs,
                                       !.ret = IF Len(rs) = Len(batch.items) THEN "ok" ELSE "running"]
                ELSE batch

\* Service.Execute up to its first return or to the call of webhookClient.Send
ServiceExecute(c, req) ==
    /\ pc[c] = "idle"
    /\ ~ExecuteSending
    /\ BatchRunning => req = batch.items[Len(batch.results) + 1]
    /\ svc' = svc
    /\ IF ActionValidate(req) # "ok"
       THEN /\ ExecuteReturns(req, NoRow, TRUE, "none")
            /\ UNCHANGED <<breakerVars, now, callerVars, ingestVars, decisionVars,
                           policyVars, schedVars, featureVars, lateVars>>
       ELSE IF IsDryRun(req)
       THEN /\ ExecuteReturns(req, ActionResult(req.action_id, "dry_run", TRUE, FALSE, 0),
                              FALSE, "none")
            /\ UNCHANGED <<breakerVars, now, callerVars, ingestVars, decisionVars,
                           policyVars, schedVars, featureVars, lateVars>>
       ELSE IF TargetURL(req) = ""
       THEN /\ ExecuteReturns(req, ActionResult(req.action_id, "completed", FALSE, FALSE, 0),
                              FALSE, "none")
            /\ UNCHANGED <<breakerVars, now, callerVars, ingestVars, decisionVars,
                           policyVars, schedVars, featureVars, lateVars>>
       ELSE /\ SendBegin(c, TargetURL(req), TargetURL(req) # "bad")
            /\ exec' = [req |-> req, phase |-> "sending",
                        result |-> ActionResult(req.action_id, "executing", FALSE, FALSE, 0),
                        err |-> FALSE, delivery |-> "none"]
            /\ batch' = batch

\* one attempt of the Send that Execute is waiting for; a successful attempt
\* leaves its status code in the Response
ServiceExecuteSend(c, answer) ==
    /\ ExecuteSending
    /\ DoRequest(c, answer)
    /\ exec' = IF doRequest(answer) = "resp" /\ AttemptSucceeds(answer)
               THEN [exec EXCEPT !.result.ResponseCode = answer.status]
               ELSE exec
    /\ UNCHANGED <<svc, batch>>

\* Send returns to Execute: failed with the error's text on an error,
\* completed with the response code otherwise; a panic of Send unwinds
\* Execute and ExecuteBatch
ServiceExecuteReturn(c) ==
    /\ ExecuteSending
    /\ pc[c] = "sent"
    /\ SendReturn(c)
    /\ svc' = svc
    /\ LET ret == call[c].ret IN
       IF ret = "panic"
       THEN /\ exec' = [exec EXCEPT !.phase = "panicked", !.delivery = ret]
            /\ batch' = IF BatchRunning THEN [batch EXCEPT !.ret = "panic"] ELSE batch
       ELSE IF ret = "ok"
       THEN ExecuteReturns(exec.req, [exec.result EXCEPT !.Status = "completed"], FALSE, ret)
       ELSE ExecuteReturns(exec.req,
                           [exec.result EXCEPT !.Status = "failed", !.ErrorMessage = TRUE],
                           TRUE, ret)

\* Service.ExecuteBatch: an empty result list; the loop then runs Execute on
\* each request in turn
ExecuteBatch(items) ==
    /\ ~BatchRunning
    /\ ~ExecuteSending
    /\ batch' = [items |-> items, results |-> <<>>,
                 ret |-> IF items = <<>> THEN "ok" ELSE "running"]
    /\ UNCHANGED <<svc, exec, breakerVars, now, callerVars, ingestVars, decisionVars,
                   policyVars, schedVars, featureVars, lateVars>>

ServiceExecuteStep ==
    \E req \in ActionRequestsFor(ActionIdSeq[1]) : ServiceExecute(Executor, req)

\* the loop of ExecuteBatch calls Execute on the next request
ExecuteBatchItem ==
    /\ BatchRunning
    /\ ServiceExecute(Executor, batch.items[Len(batch.results) + 1])

ServiceExecuteSendStep == \E answer \in Answers : ServiceExecuteSend(Executor, answer)

ServiceExecuteReturnStep == ServiceExecuteReturn(Executor)

ExecuteBatchStep == \E items \in Batches : ExecuteBatch(items)

(***************************************************************************)
(* Feature builder                                                         *)
(***************************************************************************)

\* events of the service in the events table, one timestamp each
MaxSamples == 3
\* CalculateFeatures calls of one behaviour
MaxInvocations == 2
\* the lookback window of CalculateFeatures (5 minutes), in clock ticks
FeatureWindow == 3
\* the limit CalculateFeatures passes to GetByService
FetchLimit == 1000

SampleTimes == 0..(MaxSamples - 1)

\* metrics payloads that Ingest stores: the in-range "p1" and a throttled
\* sample, and two with cpu outside [0,100]
FeaturePayloads == {"p1", "cpu=90,latency_ms=900", "cpu=150", "cpu=-50"}

\* what the events table holds at one timestamp: nothing, a metrics event or
\* an alert
SlotChoices ==
    {NoRow}
    \cup [event_type : {"metrics"}, payload : FeaturePayloads]
    \cup [event_type : {"alert"}, payload : {"p1"}]

\* the contents of the events table for the service
ServiceEvents ==
    {{[timestamp |-> t, event_type |-> f[t].event_type, payload |-> f[t].payload] :
         t \in {s \in SampleTimes : f[s] # NoRow}} : f \in [SampleTimes -> SlotChoices]}

\* ORDER BY timestamp DESC
RECURSIVE OrderByTimestampDesc(_)
OrderByTimestampDesc(rows) ==
    IF rows = {} THEN <<>>
    ELSE LET e == CHOOSE x \in rows : \A y \in rows : y.timestamp <= x.timestamp
         IN  <<e>> \o OrderByTimestampDesc(rows \ {e})

\* EventStore.GetByService: the rows of the window, most recent first, at most limit
GetByService(rows, from, to, limit) ==
    LET ordered == OrderByTimestampDesc({e \in rows : e.timestamp >= from /\ e.timestamp <= to})
    IN  SubSeq(ordered, 1, IF Len(ordered) < limit THEN Len(ordered) ELSE limit)

\* the loop that fills metricsList: the metrics payloads in the order of events
RECURSIVE MetricsList(_)
MetricsList(evts) ==
    IF evts = <<>> THEN <<>>
    ELSE (IF Head(evts).event_type = "metrics"
          THEN <<DecodeMetrics(Head(evts).payload)>> ELSE <<>>) \o MetricsList(Tail(evts))

RECURSIVE SeqSum(_)
SeqSum(values) == IF values = <<>> THEN 0 ELSE Head(values) + SeqSum(Tail(values))

\* the exchange sort of percentile: position i receives the least of values[i..]
RECURSIVE SortAscending(_)
SortAscending(values) ==
    IF values = <<>> THEN <<>>
    ELSE LET i == CHOOSE x \in DOMAIN values : \A y \in DOMAIN values : values[x] <= values[y]
         IN  <<values[i]>> \o SortAscending([k \in 1..(Len(values) - 1) |->
                                               IF k < i THEN values[k] ELSE values[k + 1]])

\* percentile(values, p) for p in hundredths; the result is a fraction over 100
percentile(values, p) ==
    IF values = <<>> THEN [num |-> 0, den |-> 100]
    ELSE LET sorted == SortAscending(values)
             k == (Len(sorted) - 1) * p
             f == k \div 100
             c == IF k % 100 = 0 THEN f ELSE f + 1
         IN  IF f = c THEN [num |-> sorted[f + 1] * 100, den |-> 100]
             ELSE [num |-> sorted[f + 1] * (c * 100 - k) + sorted[c + 1] * (k - f * 100),
                   den |-> 100]

\* calculateEMA(values, 0.3): seeded on values[0], then 0.3*v + 0.7*ema, as a fraction
RECURSIVE calculateEMAFrom(_, _, _)
calculateEMAFrom(values, i, ema) ==
    IF i > Len(values) THEN ema
    ELSE calculateEMAFrom(values, i + 1,
                          [num |-> 3 * values[i] * ema.den + 7 * ema.num, den |-> 10 * ema.den])

calculateEMA(values) ==
    IF values = <<>> THEN [num |-> 0, den |-> 1]
    ELSE calculateEMAFrom(values, 2, [num |-> values[1], den |-> 1])

\* calculateTrend: the mean of the first 20% against the mean of the last 20%.
\* diff = (endAvg - startAvg) / startAvg is a / b below; a zero startAvg makes
\* diff an infinity or NaN, and no comparison with NaN holds.
calculateTrend(values) ==
    IF Len(values) < 2 THEN "stable"
    ELSE LET n == Len(values)
             s0 == (n * 2) \div 10
             e0 == (n * 8) \div 10
             startIdx == IF s0 = 0 THEN 1 ELSE s0
             endIdx == IF e0 >= n THEN n - 1 ELSE e0
             startSum == SeqSum(SubSeq(values, 1, startIdx))
             endSum == SeqSum(SubSeq(values, endIdx + 1, n))
             a == endSum * startIdx - startSum * (n - endIdx)
             b == startSum * (n - endIdx)
             increasing == IF b > 0 THEN 10 * a > b ELSE IF b < 0 THEN 10 * a < b ELSE a > 0
             decreasing == IF b > 0 THEN 10 * a < -b ELSE IF b < 0 THEN 10 * a > -b ELSE a < 0
         IN  IF increasing THEN "increasing" ELSE IF decreasing THEN "decreasing" ELSE "stable"

\* math.Min(1.0, x) without a lower bound
mathMin1(x) == IF x.num > x.den THEN [num |-> x.den, den |-> x.den] ELSE x

\* math.Max(0, x) without an upper bound
mathMax0(x) == IF x.num < 0 THEN [num |-> 0, den |-> x.den] ELSE x

\* calculateFeaturesFromEvents at time t. Fractional fields are num/den pairs.
calculateFeaturesFromEvents(evts, t) ==
    LET metricsList == MetricsList(evts)
        n == Len(metricsList)
        last == metricsList[n]
        cpuValues == [i \in 1..n |-> metricsList[i].cpu]
        latencyValues == [i \in 1..n |-> metricsList[i].latency_ms]
        errorRateSum == SeqSum([i \in 1..n |-> metricsList[i].error_rate])
        rpsValues == [i \in 1..n |-> metricsList[i].requests_per_second]
        queueSum == SeqSum([i \in 1..n |-> metricsList[i].queue_depth])
        p95 == percentile(latencyValues, 95)
    IN  IF n = 0 THEN [err |-> "no metrics events found", features |-> NoRow]
        ELSE [err |-> "none",
              features |->
                [Timestamp |-> t,
                 CPUCurrent |-> last.cpu,
                 CPUAvg5m |-> [num |-> SeqSum(cpuValues), den |-> n],
                 LatencyP50 |-> percentile(latencyValues, 50),
                 LatencyP95 |-> p95,
                 LatencyP99 |-> percentile(latencyValues, 99),
                 ErrorRate |-> [num |-> errorRateSum, den |-> n],
                 RequestsPerSec |-> [num |-> SeqSum(rpsValues), den |-> n],
                 QueueDepth |-> last.queue_depth,
                 QueueDepthAvg5m |-> [num |-> queueSum, den |-> n],
                 CPUEMA |-> calculateEMA(cpuValues),
                 LatencyEMA |-> calculateEMA(latencyValues),
                 CPUTrend |-> calculateTrend(cpuValues),
                 RequestsTrend |-> calculateTrend(rpsValues),
                 LoadScore |-> mathMin1([num |-> 5 * last.cpu * n + 3 * queueSum
                                                 + 200 * errorRateSum,
                                         den |-> 1000 * n]),
                 HealthScore |-> mathMax0([num |-> 1000 * n - 2000 * errorRateSum
                                                   - 5 * last.cpu * n,
                                           den |-> 1000 * n]),
                 ThrottlingRisk |->
                    IF last.cpu > 70 /\ p95.num > 500 * p95.den
                    THEN mathMin1([num |-> 35000 * (last.cpu - 70) + 9 * (p95.num - 50000),
                                   den |-> 1500000])
                    ELSE [num |-> 0, den |-> 1500000]]]

\* Service.CalculateFeatures with the default window: fetch, compute, store the
\* snapshot (a failure to store is only logged), return
ServiceCalculateFeatures(stored) ==
    /\ Len(featOut) < MaxInvocations
    /\ LET evts == GetByService(featIn, now - FeatureWindow, now, FetchLimit)
           r == IF evts = <<>> THEN [err |-> "no events found", features |-> NoRow]
                ELSE calculateFeaturesFromEvents(evts, now)
           snapshot == IF r.err = "none" /\ stored
                       THEN [CalculatedAt |-> now, ValidUntil |-> now + FeatureWindow,
                             EventIDs |-> [i \in DOMAIN evts |-> evts[i].timestamp]]
                       ELSE NoRow
       IN  featOut' = Append(featOut, [events |-> evts, at |-> now, err |-> r.err,
                                       features |-> r.features, snapshot |-> snapshot])
    /\ UNCHANGED <<featIn, ingestVars, decisionVars, breakerVars, now, callerVars, policyVars,
                   schedVars, actionVars, lateVars>>

ServiceCalculateFeaturesStep == \E stored \in BOOLEAN : ServiceCalculateFeatures(stored)

(***************************************************************************)
(* Feedback                                                                *)
(***************************************************************************)

ActionTypes == {"scale_up", "scale_down", "throttle", "unthrottle", "open_circuit",
                "close_circuit", "webhook"}

FeedbackActionIds == {"act-1"}

\* before/after values of one metric in a FeedbackRequest: absent on both
\* sides, absent after, or a pair (unchanged, +20%, +40%, +50%, +60%, +100%, -40%, from 0)
MetricAbsent == [has |-> "none", before |-> 0, after |-> 0]

MetricChoices ==
    {MetricAbsent, [has |-> "before", before |-> 100, after |-> 0]}
    \cup [has : {"both"}, before : {100}, after : {100, 120, 140, 150, 160, 200, 60}]
    \cup {[has |-> "both", before |-> 0, after |-> 1]}

ErrorRateChoices ==
    {MetricAbsent, [has |-> "both", before |-> 100, after |-> 100],
     [has |-> "both", before |-> 100, after |-> 200]}

ThroughputChoices ==
    {MetricAbsent, [has |-> "both", before |-> 100, after |-> 100],
     [has |-> "both", before |-> 100, after |-> 160]}

\* MetricsBefore and MetricsAfter of a request, metric by metric
MetricMaps ==
    [cpu : MetricChoices, latency : MetricChoices, error_rate : ErrorRateChoices,
     throughput : ThroughputChoices]

MetricNames == {"cpu", "latency", "error_rate", "throughput"}

\* the keys of MetricsBefore, of MetricsAfter, and of both
BeforeKeys(m) == {k \in MetricNames : m[k].has \in {"before", "both"}}
AfterKeys(m) == {k \in MetricNames : m[k].has = "both"}
CommonKeys(m) == BeforeKeys(m) \cap AfterKeys(m)

\* Service.validateRequest
validateRequest(req) ==
    IF req.ActionID = "" THEN "action_id is required"
    ELSE IF req.DecisionID = "" THEN "decision_id is required"
    ELSE IF req.ServiceID = "" THEN "service_id is required"
    ELSE IF BeforeKeys(req.Metrics) = {} THEN "metrics_before is required"
    ELSE IF AfterKeys(req.Metrics) = {} THEN "metrics_after is required"
    ELSE "ok"

\* weights of calculateImpactScore, in hundredths (0.1 for any other metric)
Weight100(metric) ==
    IF metric \in {"cpu", "latency"} THEN 25
    ELSE IF metric = "error_rate" THEN 30
    ELSE IF metric = "throughput" THEN 20
    ELSE 10

\* changePct of calculateImpactScore, in hundredths
ImpactChange100(b, a) ==
    IF b # 0 THEN ((a - b) * 100) \div b
    ELSE IF a > 0 THEN 100 ELSE 0

\* impact of one metric, in 1/10000
MetricImpact(metric, b, a) ==
    IF metric \in {"throughput", "rps"}
    THEN ImpactChange100(b, a) * Weight100(metric)
    ELSE (0 - ImpactChange100(b, a)) * Weight100(metric)

\* totalImpact over the metrics present on both sides
RECURSIVE TotalImpact(_, _)
TotalImpact(keys, m) ==
    IF keys = {} THEN 0
    ELSE LET k == CHOOSE x \in keys : TRUE
         IN  MetricImpact(k, m[k].before, m[k].after) + TotalImpact(keys \ {k}, m)

\* Service.calculateImpactScore: totalImpact / metricCount * 5 clamped to [-1, 1],
\* as a fraction
calculateImpactScore(m) ==
    LET keys == CommonKeys(m)
        metricCount == Cardinality(keys)
        den == metricCount * 10000
        num == TotalImpact(keys, m) * 5
    IN  IF BeforeKeys(m) = {} \/ AfterKeys(m) = {} \/ metricCount = 0
        THEN [num |-> 0, den |-> 1]
        ELSE [num |-> IF num > den THEN den ELSE IF num < 0 - den THEN 0 - den ELSE num,
              den |-> den]

\* impactScore < -0.7 and impactScore < -0.4 on the fraction
ImpactBelow(score, tenths) == score.num * 10 < (0 - tenths) * score.den

\* changePct of detectDrift, in hundredths: |after - before|, divided by
\* before unless before is 0
DriftChange100(b, a) ==
    LET d == IF a >= b THEN a - b ELSE b - a
    IN  IF b # 0 THEN (d * 100) \div b ELSE d * 100

\* Service.classifyDriftType
classifyDriftType(drifted) ==
    IF drifted = {} THEN "none"
    ELSE IF "error_rate" \in drifted THEN "error_drift"
    ELSE IF drifted \cap {"latency", "throughput"} # {} THEN "performance_drift"
    ELSE IF drifted \cap {"cpu", "memory"} # {} THEN "resource_drift"
    ELSE "general_drift"

NoDrift == [DriftType |-> "", Severity |-> "", MetricsDrifted |-> {}, ThresholdViolated |-> 0]

\* Service.detectDrift: the details and whether drift was detected
detectDrift(m) ==
    LET keys == CommonKeys(m) \cap {"cpu", "latency", "error_rate", "throughput", "memory"}
        change(k) == DriftChange100(m[k].before, m[k].after)
        drifted == {k \in keys : change(k) > 20}
        criticalCount == Cardinality({k \in drifted : change(k) > 50})
        maxChange == IF drifted = {} THEN 0
                     ELSE change(CHOOSE k \in drifted : \A j \in drifted : change(j) <= change(k))
    IN  IF drifted = {} THEN [details |-> NoDrift, detected |-> FALSE]
        ELSE [details |->
                [DriftType |-> classifyDriftType(drifted),
                 Severity |-> IF criticalCount >= 2 \/ maxChange > 80 THEN "critical"
                              ELSE IF criticalCount = 1 \/ maxChange > 50 THEN "high"
                              ELSE IF Cardinality(drifted) >= 2 THEN "medium"
                              ELSE "low",
                 MetricsDrifted |-> drifted,
                 ThresholdViolated |-> maxChange],
              detected |-> TRUE]

shouldRollback_ImpactOnly(impactScore, driftDetected, drift) == ImpactBelow(impactScore, 7)

\* Service.shouldRollback
shouldRollback(impactScore, driftDetected, drift) ==
    IF ImpactBelow(impactScore, 7) THEN TRUE
    ELSE IF driftDetected /\ drift.Severity = "critical" THEN TRUE
    ELSE IF driftDetected /\ drift.Severity = "high" /\ ImpactBelow(impactScore, 4) THEN TRUE
    ELSE FALSE

\* Service.RecordFeedback; one feedback is recorded for the executed action
RecordFeedback(req) ==
    /\ fbOut = NoRow
    /\ LET v == validateRequest(req)
           impactScore == calculateImpactScore(req.Metrics)
           d == detectDrift(req.Metrics)
       IN  fbOut' = IF v # "ok" THEN [req |-> req, err |-> v, result |-> NoRow]
                    ELSE [req |-> req, err |-> "none",
                          result |-> [ActionID |-> req.ActionID,
                                      ImpactScore |-> impactScore,
                                      DriftDetected |-> d.detected,
                                      DriftDetails |-> d.details,
                                      RollbackRecommended |->
                                          shouldRollback(impactScore, d.detected, d.details),
                                      RollbackExecuted |-> FALSE]]
    /\ UNCHANGED <<origActions, rbOut, simVars, rlVars, handlerVars,
                   ingestVars, decisionVars, breakerVars, now, callerVars, policyVars,
                   schedVars, actionVars, featureVars>>

\* Service.Rollback: the request is checked for its ids, logged, and answered
\* "executed"; no action is looked up and none is issued. One rollback is asked
\* for the executed action.
Rollback(req) ==
    /\ rbOut = NoRow
    /\ rbOut' = IF req.ActionID = ""
                THEN [req |-> req, err |-> "action_id is required", issued |-> {},
                      result |-> NoRow]
                ELSE IF req.ServiceID = ""
                THEN [req |-> req, err |-> "service_id is required", issued |-> {},
                      result |-> NoRow]
                ELSE [req |-> req, err |-> "none", issued |-> {},
                      result |-> [ActionID |-> req.ActionID, Status |-> "executed"]]
    /\ UNCHANGED <<origActions, fbOut, simVars, rlVars, handlerVars,
                   ingestVars, decisionVars, breakerVars, now, callerVars, policyVars,
                   schedVars, actionVars, featureVars>>

\* the requests offered to RecordFeedback: every metrics pair with the ids
\* set, and one metrics pair with an id left empty
FeedbackRequests ==
    [ActionID : FeedbackActionIds, DecisionID : {"dec-1"}, ServiceID : {"svc-a"},
     Metrics : MetricMaps]
    \cup [ActionID : FeedbackActionIds \cup {""}, DecisionID : {"", "dec-1"},
          ServiceID : {"", "svc-a"},
          Metrics : {[cpu |-> [has |-> "both", before |-> 100, after |-> 200],
                      latency |-> MetricAbsent, error_rate |-> MetricAbsent,
                      throughput |-> MetricAbsent]}]

RollbackRequests ==
    [ActionID : FeedbackActionIds \cup {""}, ServiceID : {"", "svc-a"}, Force : BOOLEAN]

RecordFeedbackStep == \E req \in FeedbackRequests : RecordFeedback(req)

RollbackStep == \E req \in RollbackRequests : Rollback(req)

(***************************************************************************)
(* Simulation                                                              *)
(***************************************************************************)

\* rand.Float64() answers k / RandModulus for the source's state k
RandModulus == 4
\* projected minutes of a run (the code's horizon of 5 to 15, scaled down)
SimHorizon == 1
\* Monte Carlo iterations of a run (the code's 100 and more, scaled down)
SimIterations == 1
\* goroutines calling Service.Run
NumRunners == 2

Runners == 1..NumRunners

\* fractions num/den with den > 0, kept in lowest terms
RECURSIVE GCD(_, _)
GCD(a, b) == IF b = 0 THEN a ELSE GCD(b, a % b)

R(n, d) ==
    LET g == GCD(IF n < 0 THEN 0 - n ELSE n, d)
    IN  [num |-> n \div g, den |-> d \div g]

RAdd(a, b) == R(a.num * b.den + b.num * a.den, a.den * b.den)
RSub(a, b) == R(a.num * b.den - b.num * a.den, a.den * b.den)
RMul(a, b) == R(a.num * b.num, a.den * b.den)
RDivInt(a, n) == R(a.num, a.den * n)
RLess(a, b) == a.num * b.den < b.num * a.den
RMin(a, b) == IF RLess(b, a) THEN b ELSE a
RMax(a, b) == IF RLess(a, b) THEN b ELSE a

\* the global source of math/rand: the value a call returns, and the state it leaves
RandFloat64(s) == R(s, RandModulus)
RandNext(s) == (s + 1) % RandModulus

\* SimulationRequest.Validate: the error, or the request with its defaults set
SimValidate(req) ==
    IF req.ServiceID = "" THEN [err |-> "service_id is required", req |-> req]
    ELSE IF req.CurrentState = NoRow THEN [err |-> "current_state is required", req |-> req]
    ELSE [err |-> "none",
          req |-> [req EXCEPT
                     !.HorizonMinutes = IF @ < SimHorizon \/ @ > SimHorizon
                                        THEN SimHorizon ELSE @,
                     !.Iterations = IF @ < SimIterations THEN SimIterations ELSE @,
                     !.Scenario = IF @ = "" THEN "normal" ELSE @]]

\* the scenario parameters of projectState
ScenarioParams(scenario) ==
    IF scenario = "high_load"
    THEN [cpuTrend |-> R(3, 100), errorTrend |-> R(0, 1), noiseFactor |-> R(15, 100)]
    ELSE IF scenario = "failure"
    THEN [cpuTrend |-> R(0, 1), errorTrend |-> R(2, 100), noiseFactor |-> R(2, 10)]
    ELSE IF scenario = "recovery"
    THEN [cpuTrend |-> R(0 - 2, 100), errorTrend |-> R(0, 1), noiseFactor |-> R(8, 100)]
    ELSE [cpuTrend |-> R(0, 1), errorTrend |-> R(0, 1), noiseFactor |-> R(1, 10)]

\* noiseFactor*(rand.Float64()-0.5)
Noise(p, u) == RMul(p.noiseFactor, RSub(u, R(1, 2)))

\* the minutes minute..horizon of projectState; u holds the values rand.Float64()
\* returned, five a minute
RECURSIVE projectFrom(_, _, _, _, _, _, _)
projectFrom(minute, horizon, p, cpu0, errorRate0, latency0, u) ==
    IF minute > horizon THEN <<>>
    ELSE LET b == (minute - 1) * 5
             cpu1 == RMul(cpu0, RAdd(RAdd(R(1, 1), p.cpuTrend), Noise(p, u[b + 1])))
             err1 == RMin(R(1, 1),
                          RMul(errorRate0,
                               RAdd(RAdd(R(1, 1), p.errorTrend), Noise(p, u[b + 2]))))
             lat1 == RMul(latency0,
                          RAdd(RAdd(R(1, 1), RDivInt(RSub(cpu1, R(50, 1)), 200)),
                               Noise(p, u[b + 3])))
             cpu == RMax(R(0, 1), RMin(R(100, 1), cpu1))
             errorRate == RMax(R(0, 1), RMin(R(1, 1), err1))
             latency == RMax(R(0, 1), lat1)
         IN  <<[Minute |-> minute,
                CPUAvg |-> cpu,
                CPUP50 |-> RMul(cpu, RAdd(R(9, 10), RMul(R(2, 10), u[b + 4]))),
                CPUP95 |-> RMul(cpu, RAdd(R(11, 10), RMul(R(3, 10), u[b + 5]))),
                LatencyAvg |-> latency,
                ErrorRate |-> errorRate]>>
             \o projectFrom(minute + 1, horizon, p, cpu, errorRate, latency, u)

\* Service.projectState
projectState(current, horizon, scenario, u) ==
    projectFrom(1, horizon, ScenarioParams(scenario), current.CPUCurrent, current.ErrorRate,
                current.LatencyP95, u)

RECURSIVE RSum(_)
RSum(s) == IF s = <<>> THEN R(0, 1) ELSE RAdd(Head(s), RSum(Tail(s)))

\* Service.aggregateProjections
aggregateProjections(projections, horizon) ==
    LET n == Len(projections)
        col(minute, f) == [i \in 1..n |-> projections[i][minute][f]]
    IN  [minute \in 1..horizon |->
            [Minute |-> minute,
             CPUAvg |-> RDivInt(RSum(col(minute, "CPUAvg")), n),
             LatencyAvg |-> RDivInt(RSum(col(minute, "LatencyAvg")), n),
             ErrorRate |-> RDivInt(RSum(col(minute, "ErrorRate")), n)]]

\* Service.calculateAggregates
calculateAggregates(projections) ==
    LET n == Len(projections)
        some(proj, f, limit) == \E k \in DOMAIN proj : RLess(limit, proj[k][f])
        count(f, limit) == Cardinality({i \in 1..n : some(projections[i], f, limit)})
        projCost(proj) ==
            RSum([k \in DOMAIN proj |->
                     RAdd(R(1, 10), RMul(RDivInt(proj[k].CPUAvg, 100), R(1, 2)))])
        costs == [i \in 1..n |-> projCost(projections[i])]
        least == CHOOSE i \in 1..n : \A j \in 1..n : ~RLess(costs[j], costs[i])
        most == CHOOSE i \in 1..n : \A j \in 1..n : ~RLess(costs[i], costs[j])
    IN  [ProbabilityOverload |-> R(count("CPUAvg", R(90, 1)), n),
         ProbabilityHighLatency |-> R(count("LatencyAvg", R(1000, 1)), n),
         ProbabilityErrorSpike |-> R(count("ErrorRate", R(1, 10)), n),
         ExpectedCost |-> RDivInt(RSum(costs), n),
         BestCaseCost |-> costs[least],
         WorstCaseCost |-> RMax(R(0, 1), costs[most])]

\* Service.calculateCostProjection
calculateCostProjection(agg, scenario) ==
    IF scenario = "high_load" THEN RMul(agg.ExpectedCost, R(3, 2))
    ELSE IF scenario = "failure" THEN RMul(agg.ExpectedCost, R(2, 1))
    ELSE IF scenario = "recovery" THEN RMul(agg.ExpectedCost, R(8, 10))
    ELSE agg.ExpectedCost

\* Service.calculateRiskScore
calculateRiskScore(agg) ==
    RMin(R(1, 1), RAdd(RAdd(RMul(agg.ProbabilityOverload, R(4, 10)),
                            RMul(agg.ProbabilityHighLatency, R(3, 10))),
                       RMul(agg.ProbabilityErrorSpike, R(3, 10))))

\* Service.generateRecommendation
generateRecommendation(riskScore) ==
    IF RLess(R(7, 10), riskScore) THEN "scale_up_immediate"
    ELSE IF RLess(R(5, 10), riskScore) THEN "scale_up_prepare"
    ELSE IF RLess(R(3, 10), riskScore) THEN "monitor_closely"
    ELSE "maintain"

\* the rand.Float64() calls of one run
DrawsOf(req) == req.Iterations * req.HorizonMinutes * 5

\* the SimulationResult of Run for the values u that rand.Float64() returned to it
SimulationResult(req, u) ==
    LET perIteration == req.HorizonMinutes * 5
        projections ==
            [i \in 1..req.Iterations |->
                projectState(req.CurrentState, req.HorizonMinutes, req.Scenario,
                             SubSeq(u, (i - 1) * perIteration + 1, i * perIteration))]
        agg == calculateAggregates(projections)
        risk == calculateRiskScore(agg)
    IN  [Status |-> "completed",
         Scenario |-> req.Scenario,
         HorizonMinutes |-> req.HorizonMinutes,
         Iterations |-> req.Iterations,
         ProjectedStates |-> aggregateProjections(projections, req.HorizonMinutes),
         Aggregates |-> agg,
         CostProjection |-> calculateCostProjection(agg, req.Scenario),
         RiskScore |-> risk,
         Recommendation |-> generateRecommendation(risk),
         Confidence |-> RMin(R(95, 100), RAdd(R(1, 2), R(req.Iterations, 20000)))]

IdleRun == [st |-> "idle"]

\* Service.Run up to its first projectState; each runner makes one run
RunBegin(r, req) ==
    /\ runs[r].st = "idle"
    /\ LET v == SimValidate(req) IN
       runs' = [runs EXCEPT ![r] =
                  IF v.err # "none"
                  THEN [st |-> "done", asked |-> req, req |-> req, err |-> v.err,
                        u |-> <<>>, result |-> NoRow]
                  ELSE [st |-> "running", asked |-> req, req |-> v.req, err |-> "none",
                        u |-> <<>>, result |-> NoRow]]
    /\ UNCHANGED <<rng, feedbackVars, rlVars, handlerVars,
                   ingestVars, decisionVars, breakerVars, now, callerVars, policyVars,
                   schedVars, actionVars, featureVars>>

\* one rand.Float64() of projectState, on the global source
RunDraw(r) ==
    /\ runs[r].st = "running"
    /\ Len(runs[r].u) < DrawsOf(runs[r].req)
    /\ runs' = [runs EXCEPT ![r].u = Append(@, RandFloat64(rng))]
    /\ rng' = RandNext(rng)
    /\ UNCHANGED <<feedbackVars, rlVars, handlerVars,
                   ingestVars, decisionVars, breakerVars, now, callerVars, policyVars,
                   schedVars, actionVars, featureVars>>

\* the aggregation of Run and its return
RunEnd(r) ==
    /\ runs[r].st = "running"
    /\ Len(runs[r].u) = DrawsOf(runs[r].req)
    /\ runs' = [runs EXCEPT ![r].st = "done",
                            ![r].result = SimulationResult(runs[r].req, runs[r].u)]
    /\ UNCHANGED <<rng, feedbackVars, rlVars, handlerVars,
                   ingestVars, decisionVars, breakerVars, now, callerVars, policyVars,
                   schedVars, actionVars, featureVars>>

\* the current_state of scenario S3, or none
CurrentStates ==
    {NoRow, [CPUCurrent |-> R(75, 1), LatencyP95 |-> R(450, 1), ErrorRate |-> R(5, 100)]}

SimulationRequests ==
    [ServiceID : {"svc-a"}, Scenario : {"", "failure"}, HorizonMinutes : {0},
     Iterations : {0}, CurrentState : CurrentStates]
    \cup [ServiceID : {""}, Scenario : {""}, HorizonMinutes : {0},
          Iterations : {0}, CurrentState : CurrentStates]

RunBeginStep == \E r \in Runners, req \in SimulationRequests : RunBegin(r, req)

RunDrawStep == \E r \in Runners : RunDraw(r)

RunEndStep == \E r \in Runners : RunEnd(r)

(***************************************************************************)
(* Rate limiter                                                            *)
(***************************************************************************)

\* the largest rate (tokens per second) and burst given to NewRateLimiter
MaxRate == 2
MaxBurst == 2

LimiterKeys == {"10.0.0.1", "10.0.0.2"}

\* NewRateLimiter(rate, burst)
NewRateLimiter(rate, burst) ==
    [rate |-> rate, burst |-> burst, tokens |-> <<>>, lastRefill |-> <<>>]

\* m[key] = value on a Go map
MapSet(m, key, value) == [k \in DOMAIN m \cup {key} |-> IF k = key THEN value ELSE m[k]]

\* delete(m, key)
MapDelete(m, key) == [k \in DOMAIN m \ {key} |-> m[k]]

\* m[key] of a map of ints: 0 for a missing key
MapGet(m, key) == IF key \in DOMAIN m THEN m[key] ELSE 0

\* RateLimiter.Allow at time t (in seconds): the limiter it leaves and its answer
AllowAt(rl, key, t) ==
    IF key \notin DOMAIN rl.lastRefill
    THEN [rl |-> [rl EXCEPT !.tokens = MapSet(@, key, rl.burst - 1),
                            !.lastRefill = MapSet(@, key, t)],
          ok |-> TRUE]
    ELSE LET elapsed == t - rl.lastRefill[key]
             tokensToAdd == elapsed * rl.rate
             sum == MapGet(rl.tokens, key) + tokensToAdd
             newTokens == IF sum > rl.burst THEN rl.burst ELSE sum
         IN  IF newTokens > 0
             THEN [rl |-> [rl EXCEPT !.tokens = MapSet(@, key, newTokens - 1),
                                     !.lastRefill = MapSet(@, key, t)],
                   ok |-> TRUE]
             ELSE [rl |-> [rl EXCEPT !.tokens = MapSet(@, key, 0)], ok |-> FALSE]

\* RateLimiter.Allow; rlAllowed counts the true answers given to the key at
\* this instant since the key was last reset
Allow(key) ==
    /\ LET a == AllowAt(limiter, key, now)
           before == IF rlAllowed[key].at = now THEN rlAllowed[key].n ELSE 0
       IN  /\ limiter' = a.rl
           /\ rlAllowed' = [rlAllowed EXCEPT ![key] =
                               [at |-> now, n |-> IF a.ok THEN before + 1 ELSE before]]
    /\ UNCHANGED <<feedbackVars, simVars, handlerVars,
                   ingestVars, decisionVars, breakerVars, now, callerVars, policyVars,
                   schedVars, actionVars, featureVars>>

\* RateLimiter.Reset
LimiterReset(key) ==
    /\ limiter' = [limiter EXCEPT !.tokens = MapDelete(@, key),
                                  !.lastRefill = MapDelete(@, key)]
    /\ rlAllowed' = [rlAllowed EXCEPT ![key] = [at |-> now, n |-> 0]]
    /\ UNCHANGED <<feedbackVars, simVars, handlerVars,
                   ingestVars, decisionVars, breakerVars, now, callerVars, policyVars,
                   schedVars, actionVars, featureVars>>

AllowStep == \E key \in LimiterKeys : Allow(key)

LimiterResetStep == \E key \in LimiterKeys : LimiterReset(key)

(***************************************************************************)
(* Decision handler under concurrent requests                              *)
(* net/http serves every request on a goroutine of its own; Handler.policies*)
(* is a plain map with no lock around it                                   *)
(***************************************************************************)
\* number of requests in flight at once
NumRequests == 2

HttpRequests == 1..NumRequests

\* the files the concurrent requests load
ConcurrentFiles ==
    {[kind |-> "unreadable"]}
    \cup {[kind |-> "policy", policy |-> p] : p \in GoodPolicyFiles}

\* a request goroutine that is not inside a handler
IdleRequest == [st |-> "idle", id |-> "", pol |-> NoRow]

\* the goroutines inside the runtime's map assignment / map access
Assigning == {g \in HttpRequests : hreq[g].st = "assign"}
Accessing == {g \in HttpRequests : hreq[g].st = "access"}

\* the outcomes of the runtime's best-effort check of the map's writing flag
\* when another goroutine is writing: the throw, or the flag is missed
RaceOutcomes(writers, message) ==
    IF writers = {} THEN {"none"} ELSE {"none", message}

handlerTail ==
    <<condIn, condOut, evalIn, evalOut, ingestVars, decisionVars, breakerVars, now,
      callerVars, schedVars, actionVars, featureVars, feedbackVars, simVars, rlVars>>

\* handleLoadPolicy up to the start of h.policies[pol.ID] = pol
LoadPolicyBegin(g, file) ==
    /\ hfatal = "none"
    /\ hreq[g].st = "idle"
    /\ LET r == LoadPolicy(file) IN
       IF r.err # "none"
       THEN /\ loadOut' = [file |-> file, status |-> 400]
            /\ UNCHANGED <<hreq, hfatal>>
       ELSE /\ hfatal' \in RaceOutcomes(Assigning, "concurrent map writes")
            /\ hreq' = [hreq EXCEPT ![g] = [st |-> "assign", id |-> r.policy.ID,
                                            pol |-> r.policy]]
            /\ loadOut' = loadOut
    /\ UNCHANGED <<policies, lastEvaluated, handlerTail>>

\* the store of h.policies[pol.ID] = pol and the 200 response
LoadPolicyEnd(g) ==
    /\ hfatal = "none"
    /\ hreq[g].st = "assign"
    /\ policies' = [id \in DOMAIN policies \cup {hreq[g].id} |->
                       IF id = hreq[g].id THEN hreq[g].pol ELSE policies[id]]
    /\ loadOut' = [file |-> [kind |-> "policy", policy |-> hreq[g].pol], status |-> 200]
    /\ hreq' = [hreq EXCEPT ![g] = IdleRequest]
    /\ UNCHANGED <<hfatal, lastEvaluated, handlerTail>>

\* handleEvaluate up to the start of the lookup h.policies[req.PolicyID]
EvaluateBegin(g, serviceID, policyID) ==
    /\ hfatal = "none"
    /\ hreq[g].st = "idle"
    /\ serviceID # ""
    /\ hfatal' \in RaceOutcomes(Assigning, "concurrent map read and map write")
    /\ hreq' = [hreq EXCEPT ![g] =
                   [st |-> "access",
                    id |-> IF policyID = "" THEN "autoscale_policy" ELSE policyID,
                    pol |-> NoRow]]
    /\ UNCHANGED <<policies, loadOut, lastEvaluated, handlerTail>>

\* what the lookup of id can return: the stored entry, or, with a store of
\* the same key in progress, the entry being stored
LookupOutcomes(id) ==
    (IF id \in DOMAIN policies THEN {policies[id]} ELSE {NoRow})
    \cup {hreq[w].pol : w \in {a \in Assigning : hreq[a].id = id}}

\* the lookup returns: 404 without an entry, else on to MakeDecision
EvaluateLookup(g) ==
    /\ hfatal = "none"
    /\ hreq[g].st = "access"
    /\ \E found \in LookupOutcomes(hreq[g].id) :
          hreq' = [hreq EXCEPT ![g] =
                      IF found = NoRow THEN IdleRequest
                      ELSE [st |-> "decide", id |-> hreq[g].id, pol |-> found]]
    /\ UNCHANGED <<hfatal, policies, loadOut, lastEvaluated, handlerTail>>

\* MakeDecision with the policy that was looked up
EvaluateDecide(g) ==
    /\ hfatal = "none"
    /\ hreq[g].st = "decide"
    /\ lastEvaluated' = hreq[g].pol
    /\ hreq' = [hreq EXCEPT ![g] = IdleRequest]
    /\ UNCHANGED <<hfatal, policies, loadOut, handlerTail>>

LoadPolicyBeginStep ==
    \E g \in HttpRequests, file \in ConcurrentFiles : LoadPolicyBegin(g, file)

LoadPolicyEndStep ==
    \E g \in HttpRequests : LoadPolicyEnd(g)

EvaluateBeginStep ==
    \E g \in HttpRequests, serviceID \in {"", "svc-a"}, policyID \in {"", "p2"} :
        EvaluateBegin(g, serviceID, policyID)

EvaluateLookupStep ==
    \E g \in HttpRequests : EvaluateLookup(g)

EvaluateDecideStep ==
    \E g \in HttpRequests : EvaluateDecide(g)

(***************************************************************************)
(* Initial states and specifications                                       *)
(***************************************************************************)
\* circuitbreaker.DefaultConfig, the timeout (30 s) counted in clock ticks
DefaultConfig == [MaxFailures |-> 5, ResetTimeout |-> 1, HalfOpenMaxCalls |-> 3]

IngestInit ==
    /\ events = {}
    /\ kafka = <<>>
    /\ ingestCalls = 0
    /\ ingestResp = NoRow

DecisionInit ==
    /\ decisions = {}
    /\ snapshots = {}
    /\ traces = {}
    /\ nano = 0
    /\ dpc = [c \in DecisionCallers |-> "idle"]
    /\ dcall = [c \in DecisionCallers |-> NoCall]

\* circuitbreaker.New: closed, counters zero
BreakerInit ==
    /\ state = "closed"
    /\ failures = 0
    /\ successes = 0
    /\ lastFailure = 0
    /\ now = 0
    /\ streak = 0
    /\ trials = 0
    /\ hoSuccesses = 0
    /\ failedDests = {}

\* NewHandler: no policy loaded; nothing evaluated yet
PolicyInit ==
    /\ condIn = NoRow
    /\ condOut = NoRow
    /\ evalIn = NoRow
    /\ evalOut = NoRow
    /\ policies = <<>>
    /\ loadOut = NoRow
    /\ lastEvaluated = NoRow

\* NewScheduler: an empty queue, an open stopChan, not running
SchedulerInit ==
    /\ jobs = <<>>
    /\ running = FALSE
    /\ stopChan = "open"
    /\ ctxDone = FALSE
    /\ loops = [l \in LoopIds |-> NoLoop]
    /\ workers = {}
    /\ dispatched = {}
    /\ nDispatched = 0
    /\ canceled = {}
    /\ stopCall = "idle"
    /\ actionOut = NoRow

\* NewService("", false, logger); nothing executed yet
ActionInit ==
    /\ svc = [dryRun |-> FALSE, webhookURL |-> ""]
    /\ exec = NoRow
    /\ batch = NoBatch

\* nothing computed yet
FeatureInit ==
    /\ featIn = NoRow
    /\ featOut = NoRow

\* a source seeded with 0; no run made
SimInit == rng = 0 /\ runs = [r \in Runners |-> IdleRun]

\* NewRateLimiter(1, 1); no call made
LimiterInit ==
    /\ limiter = NewRateLimiter(1, 1)
    /\ rlAllowed = [k \in LimiterKeys |-> [at |-> 0, n |-> 0]]

\* no request in flight; the process is alive
HandlerInit == hreq = [g \in HttpRequests |-> IdleRequest] /\ hfatal = "none"

\* feedback.NewService: no action executed, nothing recorded or rolled back
FeedbackInit ==
    /\ origActions = <<>>
    /\ fbOut = NoRow
    /\ rbOut = NoRow

\* the services a specification does not exercise, as constructed
LateInit ==
    /\ FeedbackInit
    /\ SimInit
    /\ LimiterInit
    /\ HandlerInit

InitIngest ==
    /\ IngestInit
    /\ kafkaWriter \in BOOLEAN
    /\ DecisionInit
    /\ BreakerInit
    /\ SchedulerInit
    /\ ActionInit
    /\ FeatureInit
    /\ LateInit
    /\ PolicyInit
    /\ cfg = DefaultConfig
    /\ maxRetries = 0
    /\ pc = [c \in Callers |-> "idle"]
    /\ call = [c \in Callers |-> IdleCall]

NextIngest == IngestStep

SpecIngest == InitIngest /\ [][NextIngest]_vars

NextIngestMetrics == IngestMetricsStep

SpecIngestMetrics == InitIngest /\ [][NextIngestMetrics]_vars

InitDecision ==
    /\ IngestInit
    /\ kafkaWriter = FALSE
    /\ DecisionInit
    /\ BreakerInit
    /\ SchedulerInit
    /\ ActionInit
    /\ FeatureInit
    /\ LateInit
    /\ PolicyInit
    /\ cfg = DefaultConfig
    /\ maxRetries = 0
    /\ pc = [c \in Callers |-> "idle"]
    /\ call = [c \in Callers |-> IdleCall]

NextDecision ==
    \/ CalculateFeaturesStep
    \/ MakeDecisionBeginStep
    \/ MakeDecisionStoreStep
    \/ MakeDecisionReturnStep
    \/ NanoTick

SpecDecision == InitDecision /\ [][NextDecision]_vars

InitCB ==
    /\ IngestInit
    /\ kafkaWriter = FALSE
    /\ DecisionInit
    /\ BreakerInit
    /\ SchedulerInit
    /\ ActionInit
    /\ FeatureInit
    /\ LateInit
    /\ PolicyInit
    /\ cfg \in Configs
    /\ maxRetries = 0
    /\ pc = [c \in Callers |-> "idle"]
    /\ call = [c \in Callers |-> IdleCall]

NextCB ==
    \/ ExecuteBeginStep
    \/ ExecuteRejectedStep
    \/ ExecuteEndStep
    \/ FallbackReturnStep
    \/ Reset
    \/ Tick

SpecCB == InitCB /\ [][NextCB]_vars

\* webhook.NewClient: one breaker with DefaultConfig for the whole client
InitWebhook ==
    /\ IngestInit
    /\ kafkaWriter = FALSE
    /\ DecisionInit
    /\ BreakerInit
    /\ SchedulerInit
    /\ ActionInit
    /\ FeatureInit
    /\ LateInit
    /\ PolicyInit
    /\ cfg = DefaultConfig
    /\ maxRetries \in 0..MaxRetriesBound
    /\ pc = [c \in Callers |-> "idle"]
    /\ call = [c \in Callers |-> IdleCall]

NextWebhook ==
    \/ SendBeginStep
    \/ DoRequestStep
    \/ SendReturnStep
    \/ Tick

SpecWebhook == InitWebhook /\ [][NextWebhook]_vars

InitCondition ==
    /\ IngestInit
    /\ kafkaWriter = FALSE
    /\ DecisionInit
    /\ BreakerInit
    /\ SchedulerInit
    /\ ActionInit
    /\ FeatureInit
    /\ LateInit
    /\ cfg = DefaultConfig
    /\ maxRetries = 0
    /\ pc = [c \in Callers |-> "idle"]
    /\ call = [c \in Callers |-> IdleCall]
    /\ condIn \in [cond : ConditionInputs, features : FeatureInputs]
    /\ condOut = NoRow
    /\ evalIn = NoRow
    /\ evalOut = NoRow
    /\ policies = <<>>
    /\ loadOut = NoRow
    /\ lastEvaluated = NoRow

NextCondition == EvaluateCondition

SpecCondition == InitCondition /\ [][NextCondition]_vars

InitEvaluate ==
    /\ IngestInit
    /\ kafkaWriter = FALSE
    /\ DecisionInit
    /\ BreakerInit
    /\ SchedulerInit
    /\ ActionInit
    /\ FeatureInit
    /\ LateInit
    /\ cfg = DefaultConfig
    /\ maxRetries = 0
    /\ pc = [c \in Callers |-> "idle"]
    /\ call = [c \in Callers |-> IdleCall]
    /\ condIn = NoRow
    /\ condOut = NoRow
    /\ evalIn \in [policy : ValidPolicies, features : FeatureInputs]
    /\ evalOut = NoRow
    /\ policies = <<>>
    /\ loadOut = NoRow
    /\ lastEvaluated = NoRow

NextEvaluate == Evaluate

SpecEvaluate == InitEvaluate /\ [][NextEvaluate]_vars

InitHandler ==
    /\ IngestInit
    /\ kafkaWriter = FALSE
    /\ DecisionInit
    /\ BreakerInit
    /\ SchedulerInit
    /\ ActionInit
    /\ FeatureInit
    /\ LateInit
    /\ PolicyInit
    /\ cfg = DefaultConfig
    /\ maxRetries = 0
    /\ pc = [c \in Callers |-> "idle"]
    /\ call = [c \in Callers |-> IdleCall]

NextHandler ==
    \/ LoadDefaultPolicyStep
    \/ handleLoadPolicyStep
    \/ handleEvaluateStep

SpecHandler == InitHandler /\ [][NextHandler]_vars

InitScheduler ==
    /\ IngestInit
    /\ kafkaWriter = FALSE
    /\ DecisionInit
    /\ BreakerInit
    /\ SchedulerInit
    /\ ActionInit
    /\ FeatureInit
    /\ LateInit
    /\ PolicyInit
    /\ cfg = DefaultConfig
    /\ maxRetries = 0
    /\ pc = [c \in Callers |-> "idle"]
    /\ call = [c \in Callers |-> IdleCall]

NextScheduler ==
    \/ ScheduleStep
    \/ CancelStep
    \/ Start
    \/ StopBegin
    \/ StopClose
    \/ StopWait
    \/ CancelCtx
    \/ LoopTimerStep
    \/ LoopRelockStep
    \/ LoopExitStep
    \/ executeJobStep
    \/ SchedulerTick

SpecScheduler == InitScheduler /\ [][NextScheduler]_vars

\* the scheduling the runtime gives the run goroutine: a select with a ready
\* case takes one (the one-second timer fires, a closed channel is received
\* from), a goroutine waiting for the mutex gets it, and the clock advances;
\* nothing is assumed about job handlers returning
SpecSchedulerFair ==
    /\ SpecScheduler
    /\ WF_vars(LoopTimerStep)
    /\ WF_vars(LoopRelockStep)
    /\ WF_vars(LoopExitStep)
    /\ WF_vars(SchedulerTick)

\* action.Service.Schedule next to a Scheduler nothing else schedules on
NextActionSchedule ==
    \/ ServiceScheduleStep
    \/ Start
    \/ StopBegin
    \/ StopClose
    \/ StopWait
    \/ CancelCtx
    \/ LoopTimerStep
    \/ LoopExitStep
    \/ SchedulerTick

SpecActionSchedule == InitScheduler /\ [][NextActionSchedule]_vars

\* action.NewService: a webhook client with DefaultConfig and the default breaker
InitAction ==
    /\ IngestInit
    /\ kafkaWriter = FALSE
    /\ DecisionInit
    /\ BreakerInit
    /\ SchedulerInit
    /\ svc \in [dryRun : BOOLEAN, webhookURL : {"", "d2"}]
    /\ exec = NoRow
    /\ batch = NoBatch
    /\ FeatureInit
    /\ LateInit
    /\ PolicyInit
    /\ cfg = DefaultConfig
    /\ maxRetries = DefaultMaxRetries
    /\ pc = [c \in Callers |-> "idle"]
    /\ call = [c \in Callers |-> IdleCall]

NextAction ==
    \/ ServiceExecuteStep
    \/ ServiceExecuteSendStep
    \/ ServiceExecuteReturnStep
    \/ Tick

SpecAction == InitAction /\ [][NextAction]_vars

NextBatch ==
    \/ ExecuteBatchStep
    \/ ExecuteBatchItem
    \/ ServiceExecuteSendStep
    \/ ServiceExecuteReturnStep
    \/ Tick

SpecBatch == InitAction /\ [][NextBatch]_vars

\* the events table holds any events Ingest stored; no features computed yet
InitFeatures ==
    /\ IngestInit
    /\ kafkaWriter = FALSE
    /\ DecisionInit
    /\ BreakerInit
    /\ SchedulerInit
    /\ ActionInit
    /\ featIn \in ServiceEvents
    /\ featOut = <<>>
    /\ LateInit
    /\ PolicyInit
    /\ cfg = DefaultConfig
    /\ maxRetries = 0
    /\ pc = [c \in Callers |-> "idle"]
    /\ call = [c \in Callers |-> IdleCall]

NextFeatures ==
    \/ ServiceCalculateFeaturesStep
    \/ Tick

SpecFeatures == InitFeatures /\ [][NextFeatures]_vars

\* an action of some type was executed; nothing recorded or rolled back yet
InitFeedback ==
    /\ IngestInit
    /\ kafkaWriter = FALSE
    /\ DecisionInit
    /\ BreakerInit
    /\ SchedulerInit
    /\ ActionInit
    /\ FeatureInit
    /\ origActions \in [FeedbackActionIds -> ActionTypes]
    /\ fbOut = NoRow
    /\ rbOut = NoRow
    /\ SimInit
    /\ LimiterInit
    /\ HandlerInit
    /\ PolicyInit
    /\ cfg = DefaultConfig
    /\ maxRetries = 0
    /\ pc = [c \in Callers |-> "idle"]
    /\ call = [c \in Callers |-> IdleCall]

NextFeedback ==
    \/ RecordFeedbackStep
    \/ RollbackStep

SpecFeedback == InitFeedback /\ [][NextFeedback]_vars

\* simulation.NewService: rand.Seed(time.Now().UnixNano()), no run made yet
InitSimulation ==
    /\ IngestInit
    /\ kafkaWriter = FALSE
    /\ DecisionInit
    /\ BreakerInit
    /\ SchedulerInit
    /\ ActionInit
    /\ FeatureInit
    /\ FeedbackInit
    /\ rng \in 0..(RandModulus - 1)
    /\ runs = [r \in Runners |-> IdleRun]
    /\ LimiterInit
    /\ HandlerInit
    /\ PolicyInit
    /\ cfg = DefaultConfig
    /\ maxRetries = 0
    /\ pc = [c \in Callers |-> "idle"]
    /\ call = [c \in Callers |-> IdleCall]

NextSimulation ==
    \/ RunBeginStep
    \/ RunDrawStep
    \/ RunEndStep

SpecSimulation == InitSimulation /\ [][NextSimulation]_vars

\* NewRateLimiter with any rate and burst of the configuration
InitLimiter ==
    /\ IngestInit
    /\ kafkaWriter = FALSE
    /\ DecisionInit
    /\ BreakerInit
    /\ SchedulerInit
    /\ ActionInit
    /\ FeatureInit
    /\ FeedbackInit
    /\ SimInit
    /\ \E rate \in 0..MaxRate, burst \in 0..MaxBurst : limiter = NewRateLimiter(rate, burst)
    /\ rlAllowed = [k \in LimiterKeys |-> [at |-> 0, n |-> 0]]
    /\ HandlerInit
    /\ PolicyInit
    /\ cfg = DefaultConfig
    /\ maxRetries = 0
    /\ pc = [c \in Callers |-> "idle"]
    /\ call = [c \in Callers |-> IdleCall]

NextLimiter ==
    \/ AllowStep
    \/ LimiterResetStep
    \/ Tick

SpecLimiter == InitLimiter /\ [][NextLimiter]_vars

InitHandlerConcurrent == InitHandler

NextHandlerConcurrent ==
    \/ LoadPolicyBeginStep
    \/ LoadPolicyEndStep
    \/ EvaluateBeginStep
    \/ EvaluateLookupStep
    \/ EvaluateDecideStep

SpecHandlerConcurrent == InitHandlerConcurrent /\ [][NextHandlerConcurrent]_vars

(***************************************************************************)
(* Claims                                                                  *)
(***************************************************************************)

\* C1: after any sequence of Ingest calls the event store holds at most one row
\* per idempotency_key; a well-formed Ingest whose key is already stored leaves
\* that row exactly as it was and reports stored = true, and the call that
\* stored a row reported stored = true for the row it sent.
C1_IngestIdempotent ==
    /\ \A r1, r2 \in events : r1.idempotency_key = r2.idempotency_key => r1 = r2
    /\ ingestResp # NoRow =>
         /\ (ingestResp.before # NoRow /\ ingestResp.req \in ValidRequests) =>
              /\ ingestResp.err = "none"
              /\ ingestResp.stored
              /\ RowByKey(events, ingestResp.req.idempotency_key) = ingestResp.before
         /\ (ingestResp.before = NoRow /\ ingestResp.err = "none") =>
              /\ ingestResp.stored
              /\ RowByKey(events, ingestResp.req.idempotency_key) = ingestResp.req

\* a second well-formed event with a stored key and another event_id was ingested
C1_Witness ==
    /\ ingestResp # NoRow
    /\ ingestResp.before # NoRow
    /\ ingestResp.req \in ValidRequests
    /\ ingestResp.req.event_id # ingestResp.before.event_id
    /\ ingestResp.stored
    /\ Cardinality(events) = 1

\* C2: after any sequence of MakeDecision calls, sequential or concurrent, the
\* decision store holds at most one DecisionRecord per idempotency_key.
C2_OneRecordPerKey ==
    \A r1, r2 \in decisions : r1.idempotency_key = r2.idempotency_key => r1 = r2

\* two evaluate calls with the same key were in flight together and one of them
\* met the conflict
C2_Witness ==
    \E c1, c2 \in DecisionCallers :
        /\ c1 # c2
        /\ dpc[c1] = "trace" /\ dpc[c2] = "trace"
        /\ dcall[c1].idempotency_key = dcall[c2].idempotency_key
        /\ dcall[c1].conflict /\ ~dcall[c2].conflict
        /\ dcall[c1].decision_id # dcall[c2].decision_id
        /\ \E r \in decisions : r.idempotency_key = dcall[c1].idempotency_key

\* C3: a call whose INSERT met the idempotency_key conflict (the second or the
\* losing call) returns the winning record: the decision_id of its response is
\* that of the record stored under its key, not a fresh id of no stored record.
C3_LoserReturnsWinner ==
    \A c \in DecisionCallers :
        (dpc[c] = "trace" /\ dcall[c].conflict) =>
            MakeDecisionResponse(c).decision_id =
                RowByKey(decisions, dcall[c].idempotency_key).decision_id

\* C4: starting from closed the breaker opens exactly when MaxFailures
\* consecutive failures have been recorded: in every closed state the failure
\* counter equals the number of failures recorded since the last success (or
\* since the breaker closed) and is below MaxFailures, a success recorded while
\* closed zeroes it, and a step leaves closed for open exactly when it records
\* the MaxFailures-th consecutive failure.
C4_OpensAtMaxFailures ==
    /\ [](state = "closed" => (failures = streak /\ failures < cfg.MaxFailures))
    /\ [][(state = "closed" /\ state' = "open") <=> (state = "closed" /\ streak' = cfg.MaxFailures)]_vars
    /\ [][\A c \in Callers : (state = "closed" /\ ExecuteEnd(c, TRUE)) => failures' = 0]_vars

\* the breaker opened on the second of two consecutive failures
C4_Witness ==
    /\ state = "open"
    /\ cfg.MaxFailures = MaxCfgFailures
    /\ streak = cfg.MaxFailures
    /\ failures = cfg.MaxFailures

\* C5: while the breaker is open and ResetTimeout has not elapsed since
\* lastFailure, a call entering Execute / ExecuteWithFallback is rejected: the
\* protected function is not invoked (ExecuteWithFallback goes to its fallback)
\* and the breaker is unchanged; once the timeout has elapsed the entering call
\* is admitted and the breaker is half_open with successes = 0.
C5_OpenRejectsUntilTimeout ==
    [][\A c \in Callers :
         (pc[c] = "idle" /\ pc'[c] # "idle" /\ state = "open") =>
             IF now - lastFailure > cfg.ResetTimeout
             THEN /\ pc'[c] = "fn"
                  /\ state' = "half_open"
                  /\ successes' = 0
             ELSE /\ pc'[c] = (IF call'[c].kind = "ExecuteWithFallback" THEN "fallback" ELSE "rejected")
                  /\ UNCHANGED breakerVars]_vars

\* one call was rejected by the open breaker and, after the timeout, another was
\* admitted as the first half-open trial
C5_Witness ==
    /\ state = "half_open"
    /\ successes = 0
    /\ \E c1, c2 \in Callers : pc[c1] = "rejected" /\ pc[c2] = "fn"

C7_HalfOpenAdmitsAtMostMaxCalls ==
    state = "half_open" => trials <= cfg.HalfOpenMaxCalls

\* C8: a finished Send whose last answer was a 5xx response or a transport
\* error made exactly maxRetries+1 attempts and returned an error; an answer
\* with a status below 500 ends the Send without error and is not retried, so
\* a Send whose first answer is below 500 makes exactly one attempt.
C8_RetryCeiling ==
    /\ [](\A c \in Senders :
            (pc[c] = "sent" /\ call[c].attempts > 0) =>
                IF call[c].last \in {"5xx", "transport"}
                THEN call[c].attempts = maxRetries + 1 /\ call[c].ret = "error"
                ELSE call[c].ret = "ok")
    /\ [][\A c \in Senders :
            (pc[c] = "sending" /\ call'[c] # call[c] /\ call'[c].last = "below500") =>
                /\ pc'[c] = "sent"
                /\ call'[c].ret = "ok"
                /\ call'[c].attempts = call[c].attempts + 1
                /\ call[c].attempts = 0 => call'[c].attempts = 1]_vars

\* C9: every finished Send that issued at least one HTTP request has recorded
\* exactly one outcome on the breaker, and a Send rejected by the breaker has
\* issued no request and recorded nothing.
C9_OneOutcomePerSend ==
    \A c \in Senders :
        pc[c] = "sent" =>
            /\ call[c].attempts > 0 => call[c].recorded = 1
            /\ call[c].ret = "circuit_open" => (call[c].attempts = 0 /\ call[c].recorded = 0)

\* C10 as stated: a Send is rejected as circuit-open only if a failure was
\* recorded for its own destination.
C10_PerDestinationBreaker ==
    \A c \in Senders :
        (pc[c] = "sent" /\ call[c].ret = "circuit_open") => call[c].dest \in failedDests

\* C10 amended: the client has one breaker shared by all destinations.  A Send
\* with a valid URL is rejected as circuit-open exactly when that breaker is
\* open and ResetTimeout has not elapsed, whatever its destination, and the
\* breaker is away from closed only after MaxFailures consecutive failed Sends
\* to any destinations.
C10_SharedBreaker ==
    /\ [](state # "closed" => streak = cfg.MaxFailures)
    /\ [][\A c \in Senders :
            (pc[c] = "idle" /\ pc'[c] # "idle" /\ call'[c].ret # "invalid_url") =>
                ((call'[c].ret = "circuit_open") <=>
                    (state = "open" /\ now - lastFailure <= cfg.ResetTimeout))]_vars

\* a Send to a destination that never failed is rejected by the open breaker
C10_Witness ==
    \E c \in Senders :
        /\ pc[c] = "sent"
        /\ call[c].ret = "circuit_open"
        /\ call[c].dest \notin failedDests
        /\ failedDests # {}

\* the boolean reading of a condition tree: all is the conjunction of its
\* children, any their disjunction, not the negation of its child, the empty
\* condition is true, and a leaf has the truth value the engine gives it
RECURSIVE BooleanReading(_, _)
BooleanReading(cond, features) ==
    IF cond = EmptyCond THEN TRUE
    ELSE IF cond.All # <<>>
    THEN \A i \in 1..Len(cond.All) : BooleanReading(cond.All[i], features)
    ELSE IF cond.Any # <<>>
    THEN \E i \in 1..Len(cond.Any) : BooleanReading(cond.Any[i], features)
    ELSE IF cond.Not # NoCond
    THEN ~BooleanReading(cond.Not, features)
    ELSE evaluateCondition(cond, features)

\* C13: on every condition tree evaluateCondition returns the boolean reading
\* of the tree: all = AND of the children, any = OR of the children, not =
\* negation of the child, a missing or empty condition = true.
C13_ConditionAlgebra ==
    condOut # NoRow => condOut.result = BooleanReading(condIn.cond, condIn.features)

\* an any node whose first child is false and whose second child, a not node,
\* is true has been evaluated to true
C13_Witness ==
    /\ condOut # NoRow
    /\ Len(condIn.cond.Any) = 2
    /\ ~BooleanReading(condIn.cond.Any[1], condIn.features)
    /\ condIn.cond.Any[2].Not # NoCond
    /\ BooleanReading(condIn.cond.Any[2], condIn.features)
    /\ condOut.result

\* C14: a leaf whose fact is non-empty and names neither a ServiceFeatures
\* field nor an alias evaluates to false, whatever its op and value.
C14_UnresolvedFactIsFalse ==
    (/\ condOut # NoRow
     /\ condIn.cond.All = <<>> /\ condIn.cond.Any = <<>> /\ condIn.cond.Not = NoCond
     /\ condIn.cond.Fact # ""
     /\ condIn.cond.Fact \notin DOMAIN condIn.features
     /\ condIn.cond.Fact \notin DOMAIN FactAliases)
        => ~condOut.result

\* the rule of the evaluated policy with this id, its position in the
\* declaration, and whether its condition holds on the evaluated features
EvalRule(id) ==
    CHOOSE r \in {evalIn.policy.Rules[i] : i \in 1..Len(evalIn.policy.Rules)} : r.ID = id

EvalDeclIndex(id) ==
    CHOOSE i \in 1..Len(evalIn.policy.Rules) : evalIn.policy.Rules[i].ID = id

EvalRuleHolds(r) == evaluateCondition(r.When, evalIn.features)

\* C11: Evaluate returns the matching rule of greatest priority; the rules
\* evaluated are visited in descending priority, none of them has a priority
\* below the matched rule's, every rule above it was visited and did not match,
\* and the matched rule is the last one evaluated.  When no rule matches all
\* rules are evaluated and the result is matched=false with confidence 1.0.
C11_PriorityFirstMatch ==
    evalOut # NoRow =>
        LET rules == evalIn.policy.Rules
            ruleSet == {rules[i] : i \in 1..Len(rules)}
            all == evalOut.allResults
            n == Len(all)
            res == evalOut.result
        IN
        /\ \A i \in 1..n : \E r \in ruleSet : r.ID = all[i].RuleID
        /\ \A i, j \in 1..n : all[i].RuleID = all[j].RuleID => i = j
        /\ \A i, j \in 1..n : i < j => EvalRule(all[i].RuleID).Priority >= EvalRule(all[j].RuleID).Priority
        /\ IF res.Matched
           THEN /\ n >= 1
                /\ all[n] = res
                /\ EvalRuleHolds(EvalRule(res.RuleID))
                /\ \A r \in ruleSet : EvalRuleHolds(r) => r.Priority <= EvalRule(res.RuleID).Priority
                /\ \A i \in 1..(n - 1) : ~all[i].Matched /\ ~EvalRuleHolds(EvalRule(all[i].RuleID))
                /\ \A i \in 1..n : EvalRule(all[i].RuleID).Priority >= EvalRule(res.RuleID).Priority
                /\ \A r \in ruleSet : r.Priority > EvalRule(res.RuleID).Priority =>
                       \E i \in 1..(n - 1) : all[i].RuleID = r.ID
           ELSE /\ n = Len(rules)
                /\ \A r \in ruleSet : ~EvalRuleHolds(r)
                /\ \A i \in 1..n : ~all[i].Matched
                /\ res.Confidence = 100

\* a priority-100 rule declared last wins over a matching priority-50 rule
\* declared first, after another priority-100 rule was visited and did not match
C11_Witness ==
    /\ evalOut # NoRow
    /\ evalOut.result.Matched
    /\ Len(evalIn.policy.Rules) = 3
    /\ evalIn.policy.Rules[1].Priority = 50
    /\ EvalRuleHolds(evalIn.policy.Rules[1])
    /\ evalOut.result.RuleID = "r3"
    /\ EvalRule(evalOut.result.RuleID).Priority = 100
    /\ Len(evalOut.allResults) = 2

\* C12: rules of equal priority are evaluated in declaration order, so of the
\* matching rules of greatest priority the one declared first is returned, and
\* the policy's rule list is the same after Evaluate as before.
C12_StableOrder ==
    evalOut # NoRow =>
        LET all == evalOut.allResults
            n == Len(all)
            res == evalOut.result
            rules == evalIn.policy.Rules
        IN
        /\ evalOut.rulesAfter = rules
        /\ \A i, j \in 1..n :
               (i < j /\ EvalRule(all[i].RuleID).Priority = EvalRule(all[j].RuleID).Priority) =>
                   EvalDeclIndex(all[i].RuleID) < EvalDeclIndex(all[j].RuleID)
        /\ res.Matched =>
               \A k \in 1..Len(rules) :
                   (EvalRuleHolds(rules[k]) /\ rules[k].Priority = EvalRule(res.RuleID).Priority) =>
                       EvalDeclIndex(res.RuleID) <= k

\* a policy that meets the validation rules: id and version present, at least
\* one rule, rule ids present and pairwise different, every rule named and
\* with an action type
WellFormedPolicy(p) ==
    /\ p.ID # ""
    /\ p.Version # ""
    /\ Len(p.Rules) >= 1
    /\ \A i \in 1..Len(p.Rules) :
           /\ p.Rules[i].ID # ""
           /\ p.Rules[i].Name # ""
           /\ p.Rules[i].Action.Type # ""
    /\ \A i, j \in 1..Len(p.Rules) : p.Rules[i].ID = p.Rules[j].ID => i = j

\* C15: every policy in Handler.policies, and so every policy an evaluate
\* request is run against, is well-formed and filed under its own id; a load
\* of a file that is unreadable, unparsable or not well-formed is answered 400
\* and a load of a well-formed policy 200.
C15_OnlyValidatedPolicies ==
    /\ \A id \in DOMAIN policies : WellFormedPolicy(policies[id]) /\ policies[id].ID = id
    /\ lastEvaluated # NoRow => WellFormedPolicy(lastEvaluated)
    /\ loadOut # NoRow =>
           (loadOut.status = 200) <=>
               (loadOut.file.kind = "policy" /\ WellFormedPolicy(loadOut.file.policy))

\* a policy with a duplicated rule id was just refused while an evaluate
\* request had run against a loaded policy
C15_Witness ==
    /\ loadOut # NoRow
    /\ loadOut.status = 400
    /\ loadOut.file.kind = "policy"
    /\ Len(loadOut.file.policy.Rules) >= 2
    /\ loadOut.file.policy.Rules[1].ID = loadOut.file.policy.Rules[2].ID
    /\ loadOut.file.policy.Rules[1].ID # ""
    /\ lastEvaluated # NoRow
    /\ DOMAIN policies = {"autoscale_policy", "p2"}

\* C16: the snapshot_id of every stored decision record is the snapshot_id of
\* a stored feature snapshot.
C16_DecisionReferencesSnapshot ==
    \A d \in decisions : \E sn \in snapshots : sn.snapshot_id = d.snapshot_id


\* C17: the scheduler never hands a job to a worker before its execute_at,
\* hands each scheduled job over at most once, and every tick hands over all
\* the pending jobs whose execute_at <= the tick's now: when the tick ends the
\* pending jobs are exactly those whose execute_at is later than that now.
C17_DispatchesDueJobsOnce ==
    /\ [](nDispatched = Cardinality(dispatched))
    /\ [][\A k \in 1..Len(jobs) :
              jobs[k].ID \in dispatched' \ dispatched => jobs[k].ExecuteAt <= now]_vars
    /\ [][nDispatched' # nDispatched =>
              /\ nDispatched' = nDispatched + 1
              /\ \E k \in 1..Len(jobs) :
                    /\ dispatched' = dispatched \cup {jobs[k].ID}
                    /\ \A m \in 1..Len(jobs) : jobs[k].ExecuteAt <= jobs[m].ExecuteAt
                    /\ {jobs'[m] : m \in 1..Len(jobs')} = {jobs[m] : m \in 1..Len(jobs)} \ {jobs[k]}
                    /\ Len(jobs') = Len(jobs) - 1]_vars
    /\ [][\A l \in LoopIds :
              /\ (loops[l].st = "processing" /\ loops'[l].st = "select")
                     => \A k \in 1..Len(jobs') : jobs'[k].ExecuteAt > loops[l].now
              /\ (LoopTimer(l) /\ loops'[l].st = "select")
                     => \A k \in 1..Len(jobs') : jobs'[k].ExecuteAt > now]_vars

\* a tick has handed two due jobs to workers and gone back to the select,
\* leaving pending a job that is not due yet
C17_Witness ==
    /\ nDispatched >= 2
    /\ Len(jobs) > 0
    /\ \A k \in 1..Len(jobs) : jobs[k].ExecuteAt > now
    /\ \E l \in LoopIds : loops[l].st = "select"

C19_StopAwaitsWorkers ==
    stopCall = "returned" => workers = {}

\* C20: an action that Schedule accepted (status "scheduled") is on the
\* Scheduler: pending in its queue or already handed to a worker.
C20_AcceptedActionIsEnqueued ==
    (actionOut # NoRow /\ actionOut.status = "scheduled")
        => actionOut.id \in PendingIds \cup dispatched

\* C21: an Execute of a valid request that is a dry run (by the request or by
\* the service) returns at once with status dry_run and metadata.message set,
\* without calling Send: no HTTP attempt is made and the breaker's state and
\* counters are the ones before the call.
C21_DryRunSendsNothing ==
    [][(exec' # exec /\ exec' # NoRow /\ ActionValidate(exec'.req) = "ok"
            /\ (exec'.req.dry_run \/ svc.dryRun))
        => /\ exec'.phase = "returned"
           /\ exec'.result.Status = "dry_run"
           /\ exec'.result.Message
           /\ ~exec'.err
           /\ exec'.delivery = "none"
           /\ UNCHANGED <<breakerVars, pc, call>>]_vars

\* a dry run was executed while the breaker was open after failed deliveries
C21_Witness ==
    /\ exec # NoRow
    /\ exec.phase = "returned"
    /\ exec.req.dry_run
    /\ exec.result # NoRow
    /\ exec.result.Status = "dry_run"
    /\ state = "open"
    /\ failures > 0

\* C22: an Execute that went to Send has returned a result: completed, with
\* no error and the response code of the answer, exactly when the delivery
\* succeeded; failed, with an error message and a non-nil error, when it ended
\* in an error; and never executing.
C22_FinalStatusMatchesDelivery ==
    (exec # NoRow /\ exec.phase # "sending" /\ exec.delivery # "none")
        => /\ exec.phase = "returned"
           /\ exec.result.Status \in {"completed", "failed"}
           /\ (exec.result.Status = "completed") <=> (exec.delivery = "ok")
           /\ exec.result.Status = "completed" =>
                  (~exec.err /\ exec.result.ResponseCode \in Statuses)
           /\ exec.result.Status = "failed" => (exec.err /\ exec.result.ErrorMessage)

\* C23: a batch execute that has ended returned normally, with one result per
\* request, in the order of the requests.
C23_BatchOneResultPerItem ==
    batch.ret \notin {"none", "running"}
        => /\ batch.ret = "ok"
           /\ Len(batch.results) = Len(batch.items)
           /\ \A i \in 1..Len(batch.items) : batch.results[i].ActionID = batch.items[i].action_id

\* C24: an Ingest whose idempotency_key is already stored writes no row and
\* publishes nothing to the downstream event log.
C24_DuplicateNotRepublished ==
    (ingestResp # NoRow /\ ingestResp.err = "none" /\ ingestResp.before # NoRow)
        => ~ingestResp.published

\* C25: an Ingest of a request with an empty event_id, idempotency_key,
\* service_id, event_type or payload fails with a validation error, and that
\* call stores nothing and publishes nothing.
C25_EmptyFieldRejected ==
    [][(ingestCalls' # ingestCalls
            /\ \/ ingestResp'.req.event_id = ""
               \/ ingestResp'.req.idempotency_key = ""
               \/ ingestResp'.req.service_id = ""
               \/ ingestResp'.req.event_type = ""
               \/ ingestResp'.req.payload = "")
        => /\ ingestResp'.err = "validation"
           /\ ~ingestResp'.stored
           /\ ~ingestResp'.published
           /\ events' = events
           /\ kafka' = kafka]_vars

\* a request with an empty payload was refused after events had been stored
\* and published
C25_Witness ==
    /\ ingestResp # NoRow
    /\ ingestResp.req.payload = ""
    /\ ingestResp.err = "validation"
    /\ events # {}
    /\ DOMAIN kafka # {}

\* C26: an Ingest of an event whose type is outside {metrics, alert, custom}
\* answers with a validation error (and stores nothing).
C26_UnknownTypeIsValidationError ==
    (ingestResp # NoRow /\ ingestResp.req.event_type \notin ValidEventTypes)
        => (ingestResp.err = "validation" /\ ~ingestResp.stored)

\* C27: no stored metrics event has a numeric payload field out of range.
C27_StoredMetricsInRange ==
    \A e \in events : e.event_type = "metrics" => MetricsInRange(DecodeMetrics(e.payload))

\* the calls of CalculateFeatures that returned features
FeatureCalls == {i \in DOMAIN featOut : featOut[i].err = "none"}

\* the most recent metrics event among the events a call fetched
MostRecentMetrics(evts) ==
    LET ms == {i \in DOMAIN evts : evts[i].event_type = "metrics"}
        i == CHOOSE x \in ms : \A y \in ms : evts[y].timestamp <= evts[x].timestamp
    IN  DecodeMetrics(evts[i].payload)

\* C28: cpu_current and queue depth of the features are the values of the most
\* recent metrics event of the window (the samples are processed in
\* chronological order although the store returns them most recent first).
C28_CurrentIsMostRecentSample ==
    \A i \in FeatureCalls :
        /\ featOut[i].features.CPUCurrent = MostRecentMetrics(featOut[i].events).cpu
        /\ featOut[i].features.QueueDepth = MostRecentMetrics(featOut[i].events).queue_depth

\* C29: two CalculateFeatures calls that fetched the same event list, at
\* whatever times, return ServiceFeatures that are equal in every field.
C29_SameEventsSameFeatures ==
    \A i, j \in FeatureCalls :
        featOut[i].events = featOut[j].events => featOut[i].features = featOut[j].features

\* the same with the Timestamp field left out of the comparison
SameEventsSameFeaturesButTimestamp ==
    \A i, j \in FeatureCalls :
        featOut[i].events = featOut[j].events
        => [featOut[i].features EXCEPT !.Timestamp = 0]
           = [featOut[j].features EXCEPT !.Timestamp = 0]

InUnitInterval(x) == x.num >= 0 /\ x.num <= x.den

\* C30: for every event list Ingest can have stored, load_score, health_score
\* and throttling_risk of the computed features each lie in [0,1].
C30_CompositesInUnitInterval ==
    \A i \in FeatureCalls :
        /\ InUnitInterval(featOut[i].features.LoadScore)
        /\ InUnitInterval(featOut[i].features.HealthScore)
        /\ InUnitInterval(featOut[i].features.ThrottlingRisk)

\* the same for the calls whose metrics events are all within the schema's ranges
CompositesInUnitIntervalForInRangeEvents ==
    \A i \in FeatureCalls :
        (\A k \in DOMAIN featOut[i].events :
            featOut[i].events[k].event_type = "metrics"
            => MetricsInRange(DecodeMetrics(featOut[i].events[k].payload)))
        => /\ InUnitInterval(featOut[i].features.LoadScore)
           /\ InUnitInterval(featOut[i].features.HealthScore)
           /\ InUnitInterval(featOut[i].features.ThrottlingRisk)

\* a computation whose throttling risk is strictly between 0 and 1
ThrottlingComputed ==
    \E i \in FeatureCalls :
        /\ featOut[i].features.ThrottlingRisk.num > 0
        /\ featOut[i].features.ThrottlingRisk.num < featOut[i].features.ThrottlingRisk.den

\* the impact score of the last recorded feedback is exactly -0.5
ImpactIsMinusHalf == fbOut.result.ImpactScore.num * 2 = 0 - fbOut.result.ImpactScore.den

\* C31: rollback is recommended if and only if impact < -0.7, or the drift
\* severity is critical, or the severity is high and impact < -0.4; at impact
\* -0.5 it is recommended with severity high and not with severity medium.
C31_RollbackGating ==
    (fbOut # NoRow /\ fbOut.err = "none") =>
        LET r == fbOut.result
            imp == r.ImpactScore
            sev == r.DriftDetails.Severity
        IN  /\ r.RollbackRecommended
                <=> \/ imp.num * 10 < (0 - 7) * imp.den
                    \/ sev = "critical"
                    \/ (sev = "high" /\ imp.num * 10 < (0 - 4) * imp.den)
            /\ (ImpactIsMinusHalf /\ sev = "medium") => ~r.RollbackRecommended
            /\ (ImpactIsMinusHalf /\ sev = "high") => r.RollbackRecommended

C31_Witness ==
    /\ fbOut # NoRow
    /\ fbOut.err = "none"
    /\ ImpactIsMinusHalf
    /\ fbOut.result.DriftDetails.Severity = "high"
    /\ fbOut.result.RollbackRecommended

\* a feedback at impact -0.5 with severity medium, not recommended
MediumAtMinusHalf ==
    /\ fbOut # NoRow
    /\ fbOut.err = "none"
    /\ ImpactIsMinusHalf
    /\ fbOut.result.DriftDetails.Severity = "medium"
    /\ ~fbOut.result.RollbackRecommended

\* the inverse of an action type; webhook has none
Inverse(type) ==
    CASE type = "scale_up" -> "scale_down"
      [] type = "scale_down" -> "scale_up"
      [] type = "throttle" -> "unthrottle"
      [] type = "unthrottle" -> "throttle"
      [] type = "open_circuit" -> "close_circuit"
      [] type = "close_circuit" -> "open_circuit"
      [] OTHER -> "none"

\* C32: a rollback that is executed issues the inverse of the original action
\* type, is never executed for a webhook action, and without force is executed
\* only when feedback recommended it.
C32_RollbackIssuesInverse ==
    (rbOut # NoRow /\ rbOut.err = "none") =>
        LET id == rbOut.req.ActionID IN
        /\ origActions[id] # "webhook"
        /\ rbOut.issued = {Inverse(origActions[id])}
        /\ \/ rbOut.req.Force
           \/ /\ fbOut # NoRow
              /\ fbOut.err = "none"
              /\ fbOut.result.ActionID = id
              /\ fbOut.result.RollbackRecommended

\* the runs that completed
CompletedRuns == {r \in Runners : runs[r].st = "done" /\ runs[r].err = "none"}

\* C33: two runs with the same request produce identical projections,
\* aggregates and risk score, whether they run one after the other or
\* concurrently.
C33_SameRequestSameResult ==
    \A r1, r2 \in CompletedRuns :
        runs[r1].asked = runs[r2].asked
        => /\ runs[r1].result.ProjectedStates = runs[r2].result.ProjectedStates
           /\ runs[r1].result.Aggregates = runs[r2].result.Aggregates
           /\ runs[r1].result.RiskScore = runs[r2].result.RiskScore

\* a run is given consecutive values of the source
UnsharedStream ==
    \A r \in Runners :
        runs[r].st # "idle" =>
            \A k \in 1..(Len(runs[r].u) - 1) :
                runs[r].u[k + 1] = RandFloat64(RandNext(runs[r].u[k].num * (RandModulus \div runs[r].u[k].den)))

\* at most burst Allow calls of a key were answered true at this instant, and
\* the key's token count is within [0, burst]
BucketWithinBurst(key) ==
    /\ rlAllowed[key].at = now => rlAllowed[key].n <= limiter.burst
    /\ key \in DOMAIN limiter.tokens
       => (limiter.tokens[key] >= 0 /\ limiter.tokens[key] <= limiter.burst)

\* C39: for every key and every burst >= 0, with no time elapsing at most
\* burst Allow calls return true, and after any sequence of Allow and Reset
\* calls the key's token count is within [0, burst].
C39_TokenBucketBounded == \A key \in LimiterKeys : BucketWithinBurst(key)

\* the same for a burst of at least 1
TokenBucketBoundedForPositiveBurst ==
    limiter.burst >= 1 => \A key \in LimiterKeys : BucketWithinBurst(key)

\* a key that used its whole burst at one instant and was then refused
BurstUsedUp ==
    \E key \in LimiterKeys :
        /\ limiter.burst >= 1
        /\ rlAllowed[key].at = now
        /\ rlAllowed[key].n = limiter.burst
        /\ key \in DOMAIN limiter.tokens
        /\ limiter.tokens[key] = 0

\* C34: while policies are loaded and evaluated by concurrent requests, no
\* goroutine is inside a store to Handler.policies while another is inside a
\* store or a lookup, the runtime never throws, and every evaluation is made
\* with a whole policy that was loaded
EvaluatesWholePolicy ==
    lastEvaluated = NoRow \/ lastEvaluated \in GoodPolicyFiles

C34_AtomicPolicyReplace ==
    /\ hfatal = "none"
    /\ \A w \in Assigning : Assigning \cup Accessing = {w}
    /\ EvaluatesWholePolicy

\* an evaluation was made while the process stayed alive
EvaluatedUnderLoad ==
    /\ hfatal = "none"
    /\ lastEvaluated # NoRow
    /\ Assigning # {}

\* the breaker fields after the step
BreakerAfter ==
    [state |-> state', failures |-> failures', successes |-> successes',
     lastFailure |-> lastFailure']

\* C35: a step of the breaker that is no caller's step and no clock tick is a
\* Reset; whatever the state before it, the breaker is then closed with
\* failures = 0 and successes = 0, and an Execute made next is admitted
C35_ResetClosesBreaker ==
    [][(pc' = pc /\ now' = now)
        => /\ state' = "closed"
           /\ failures' = 0
           /\ successes' = 0
           /\ canExecute(BreakerAfter, now').admit]_vars

\* with MaxFailures = 1 a failure recorded at the present instant opened the
\* breaker, and the reset timeout cannot have elapsed since: it is closed
\* again only by Reset
ResetFromOpen ==
    /\ cfg.MaxFailures = 1
    /\ now > 0
    /\ lastFailure = now
    /\ state = "closed"
    /\ failures = 0

\* caller c's fn returns in this step and recordResult runs
RecordsOutcome(c) == pc[c] = "fn" /\ pc'[c] # "fn"

\* C37: the outcome of a call that was admitted while the breaker was closed
\* and that returns while it is half_open is not counted there: it neither
\* adds a trial success, nor closes the breaker, nor opens it again
C37_OutcomeCountedInAdmissionState ==
    [][\A c \in Callers :
          (RecordsOutcome(c) /\ call[c].admitted = "closed" /\ state = "half_open")
              => (state' = "half_open" /\ successes' = successes)]_vars

\* a call admitted while closed is in flight with the breaker half_open
ClosedCallInHalfOpen ==
    \E c \in Callers : pc[c] = "fn" /\ call[c].admitted = "closed" /\ state = "half_open"

\* a run goroutine exists
PollingLoopAlive == \E l \in LoopIds : loops[l].st # "none"

\* C38: over every sequence of Start and Stop calls no call panics, and
\* while the scheduler is marked running with a live context a polling loop
\* is alive
C38_LifecycleSafe ==
    /\ stopCall # "panicked"
    /\ (running /\ ~ctxDone) => PollingLoopAlive

\* C36: a job that is pending while the scheduler is running with a live
\* context is eventually handed to a worker, unless it is cancelled or the
\* scheduler stops running or its context ends; handlers that never return
\* do not stand in the way
C36_PendingJobEventuallyDispatched ==
    \A id \in JobIdPool :
        (id \in PendingIds /\ running /\ ~ctxDone)
            ~> (id \in dispatched \/ id \in canceled \/ ~running \/ ctxDone)

\* the same until Stop has closed the stop channel
DispatchedBeforeFirstStop ==
    \A id \in JobIdPool :
        (id \in PendingIds /\ running /\ ~ctxDone)
            ~> (id \in dispatched \/ id \in canceled \/ ~running \/ ctxDone
                \/ stopChan = "closed")

\* C40: no delivery attempt ends in a panic of doRequest: an attempt that
\* receives a response, with headers or without, returns a Response
C40_ResponseHeadersRecorded ==
    \A c \in Senders : call[c].kind = "Send" => call[c].ret # "panic"

====
